---- MODULE Spec2Model ----
(***************************************************************************)
(* Model of the meta-schedule argument-descriptor extraction               *)
(* (src/meta_schedule/arg_info.cc) and of the compute-location mutator     *)
(* (src/meta_schedule/mutator/mutate_compute_location.cc).                 *)
(*                                                                         *)
(* Each component has its own specification: SpecEntry (FindEntryFunc,     *)
(* ArgInfo::FromEntryFunc), SpecArgs (ArgInfo::FromPrimFunc), SpecJSON     *)
(* (AsJSON / FromJSON) and SpecMutate (MutateComputeLocation).             *)
(***************************************************************************)
EXTENDS Integers, Sequences, FiniteSets, TLC

VARIABLES
    mod,          \* the IRModule handed to FindEntryFunc / FromEntryFunc
    found,        \* outcome of the last FindEntryFunc call
    entry_args,   \* outcome of the last ArgInfo::FromEntryFunc call
    func,         \* the PrimFunc handed to ArgInfo::FromPrimFunc
    args,         \* outcome of the last ArgInfo::FromPrimFunc call
    tinfo,        \* the TensorInfo whose AsJSON is taken, if any
    json_obj,     \* the JSON object: AsJSON's result, or a given one
    parsed_arg,   \* outcome of the last ArgInfo::FromJSON(json_obj)
    parsed_tensor, \* outcome of the last TensorInfo::FromJSON(json_obj)
    ctx_mod,      \* context->mod of the TuneContext: the workload
    json_mod_,    \* MutateComputeLocationNode::json_mod_
    trace,        \* the trace handed to Apply
    rand_state,   \* the caller's random state (*rand_state)
    applied,      \* outcome of the last Apply call
    mutators,     \* SpecClone: the MutateComputeLocationNode objects
    callers,      \* SpecClone: per thread, its random state and its Apply call
    ghost,        \* SpecClone: what each mutator and call was started with
    measure_candidates, \* the candidates of the measurement round
    builder_results,    \* the builder's results of the round
    runner_results,     \* the runner's results of the round
    callback,     \* outcome of RemoveBuildArtifactNode::Apply and its removal calls
    round_pc,     \* how far the round has come
    prov_in,      \* the program, schedule state and instruction shown to f_decision_provider
    prov_out,     \* what f_decision_provider recorded and returned
    expr,         \* the expression handed to UpdateStructInfo
    sinfo_log,    \* the UpdateStructInfo calls made on it, with their outcomes
    tgt_attrs,    \* the attribute map (TargetJSON) of a target
    tgt_last,     \* the last call made on it: which, on what, and whether it returned
    tasks,        \* the tasks of the scheduler: state, budget and the round in flight
    sched         \* the scheduler: the task whose round is in flight, and whether it has terminated

entryVars == <<mod, found, entry_args>>
argVars == <<func, args>>
jsonVars == <<tinfo, json_obj, parsed_arg, parsed_tensor>>
mutVars == <<ctx_mod, json_mod_, trace, rand_state, applied>>
cloneVars == <<mutators, callers, ghost>>
roundVars == <<measure_candidates, builder_results, runner_results, callback, round_pc>>
baseVars == <<entryVars, argVars, jsonVars, mutVars, cloneVars, roundVars>>
provVars == <<prov_in, prov_out>>
sinfoVars == <<expr, sinfo_log>>
tgtVars == <<tgt_attrs, tgt_last>>
schedVars == <<tasks, sched>>
restVars == <<provVars, sinfoVars, tgtVars, schedVars>>
vars == <<mod, found, entry_args, func, args, tinfo, json_obj, parsed_arg, parsed_tensor,
          ctx_mod, json_mod_, trace, rand_state, applied, mutators, callers, ghost,
          measure_candidates, builder_results, runner_results, callback, round_pc,
          prov_in, prov_out,
          expr, sinfo_log,
          tgt_attrs, tgt_last,
          tasks, sched>>

(***************************************************************************)
(* Bounds of the model.                                                    *)
(***************************************************************************)
\* Largest number of functions of a module.
MaxFuncs == 3
\* Largest number of parameters of a PrimFunc.
MaxParams == 3
\* Largest rank of a buffer shape.
MaxShapeLen == 4
\* Largest number of elements of a JSON array given to FromJSON.
MaxJsonLen == 4
\* Largest number of instructions of a trace.
MaxTraceLen == 2
\* Largest number of loops around a block of a workload.
MaxLoops == 2
\* Largest number of candidates of a measurement round.
MaxResults == 3

(***************************************************************************)
(* Outcomes. A call either returns a value or ends in LOG(FATAL), which    *)
(* throws: the message text is kept as `what`, the object streamed into    *)
(* the message as `payload`.                                               *)
(***************************************************************************)
NoPayload == <<"no payload">>
NotCalled == [kind |-> "none", value |-> <<>>, what |-> "", payload |-> NoPayload]
Returned(v) == [kind |-> "ok", value |-> v, what |-> "", payload |-> NoPayload]
Fatal(msg, obj) == [kind |-> "fatal", value |-> <<>>, what |-> msg, payload |-> obj]

(***************************************************************************)
(* Data types, buffers, PrimFuncs.                                         *)
(***************************************************************************)
DTypeCodes == {"int", "uint", "float"}
DTypeBits == {1, 8, 32}
DTypeLanes == {1, 4}
DataTypes == [code : DTypeCodes, bits : DTypeBits, lanes : DTypeLanes]

\* int64 extents used in shapes.
ShapeVals == {1, 3, 224}

SeqsUpTo(S, n) == UNION {[1..k -> S] : k \in 0..n}

Shapes == SeqsUpTo(ShapeVals, MaxShapeLen)

\* tir::Buffer, reduced to the two fields FromPrimFunc reads.
Float32 == [code |-> "float", bits |-> 32, lanes |-> 1]
Int8x4 == [code |-> "int", bits |-> 8, lanes |-> 4]
SampleBuffers == {[dtype |-> Float32, shape |-> <<1, 224>>],
                  [dtype |-> Float32, shape |-> <<224, 1>>],
                  [dtype |-> Int8x4, shape |-> <<>>]}

\* A parameter is a tir::Var, identified by a number; `buffer` is
\* func->buffer_map.Get(var): a one-element sequence holding the buffer, or
\* <<>> when the var is unbound. A PrimFunc is the sequence func->params.
Params == [var : 1..MaxParams, buffer : {<<>>} \cup {<<b>> : b \in SampleBuffers}]

DistinctVars(ps) == \A i, j \in 1..Len(ps) : i # j => ps[i].var # ps[j].var

PrimFuncs == {ps \in SeqsUpTo(Params, MaxParams) : DistinctVars(ps)}

TensorInfo(dtype, shape) == [dtype |-> dtype, shape |-> shape]

(***************************************************************************)
(* support::AsVector<PrimExpr, int64_t>: the constant extents of a buffer  *)
(* shape as int64 values, one per extent, in order.                        *)
(***************************************************************************)
RECURSIVE AsVector(_)
AsVector(shape) ==
    IF shape = <<>> THEN <<>>
    ELSE <<Head(shape)>> \o AsVector(Tail(shape))

(***************************************************************************)
(* ArgInfo::FromPrimFunc: the loop over func->params.                      *)
(***************************************************************************)
RECURSIVE FromPrimFuncLoop(_, _, _)
\* Mutant: pushes each descriptor to the front of the result.
FromPrimFuncLoopPushFront(params, i, result) ==
    IF i > Len(params) THEN Returned(result)
    ELSE IF params[i].buffer # <<>>
         THEN FromPrimFuncLoop(params, i + 1,
                  <<TensorInfo(params[i].buffer[1].dtype,
                               AsVector(params[i].buffer[1].shape))>> \o result)
         ELSE Fatal("ValueError: Unsupported argument type: ", params[i].var)

\* Mutant: an unbound parameter is skipped instead of being fatal.
FromPrimFuncLoopSkipUnbound(params, i, result) ==
    IF i > Len(params) THEN Returned(result)
    ELSE IF params[i].buffer # <<>>
         THEN FromPrimFuncLoop(params, i + 1,
                  Append(result, TensorInfo(params[i].buffer[1].dtype,
                                            AsVector(params[i].buffer[1].shape))))
         ELSE FromPrimFuncLoop(params, i + 1, result)

FromPrimFuncLoop(params, i, result) ==
    IF i > Len(params) THEN Returned(result)
    ELSE IF params[i].buffer # <<>>
         THEN FromPrimFuncLoop(params, i + 1,
                  Append(result, TensorInfo(params[i].buffer[1].dtype,
                                            AsVector(params[i].buffer[1].shape))))
         ELSE Fatal("ValueError: Unsupported argument type: ", params[i].var)

FromPrimFunc(f) == FromPrimFuncLoop(f, 1, <<>>)

(***************************************************************************)
(* IRModule: mod->functions in iteration order. Each entry is a GlobalVar  *)
(* name with its BaseFunc: `prim` tells a tir::PrimFunc from any other     *)
(* BaseFunc, `entry` is HasNonzeroAttr(tir::attr::kIsEntryFunc), `body`    *)
(* the parameters of the function. Names are unique within a module.       *)
(***************************************************************************)
FuncNames == {"main", "f", "g", "h"}

AllBound == <<[var |-> 1, buffer |-> <<[dtype |-> Float32, shape |-> <<1, 224>>]>>]>>
OneUnbound == <<[var |-> 1, buffer |-> <<[dtype |-> Float32, shape |-> <<1, 224>>]>>],
                [var |-> 2, buffer |-> <<>>]>>
SampleBodies == {AllBound, OneUnbound}

Functions == [name : FuncNames, prim : {TRUE}, entry : BOOLEAN, body : SampleBodies]
             \cup [name : FuncNames, prim : {FALSE}, entry : BOOLEAN, body : {<<>>}]

Modules == {m \in SeqsUpTo(Functions, MaxFuncs) :
               \A i, j \in 1..Len(m) : i # j => m[i].name # m[j].name}

NullFunc == [name |-> "nullptr", prim |-> FALSE, entry |-> FALSE, body |-> <<>>]

(***************************************************************************)
(* FindEntryFunc: one pass over mod->functions, then the three priorities. *)
(***************************************************************************)
\* Mutant: the num_prim_func == 0 check is missing.
FindEntryAfterLoopNoEmptyCheck(m, num_prim_func, main_func, last_func) ==
    IF main_func # NullFunc THEN Returned(main_func)
    ELSE IF num_prim_func > 1
         THEN Fatal("ValueError: Multiple PrimFuncs exist in the IRModule", m)
         ELSE Returned(last_func)

\* Mutant: the num_prim_func > 1 check is missing.
FindEntryAfterLoopNoMultiCheck(m, num_prim_func, main_func, last_func) ==
    IF main_func # NullFunc THEN Returned(main_func)
    ELSE IF num_prim_func = 0
         THEN Fatal("ValueError: Cannot find any PrimFunc in the given IRModule: ", m)
         ELSE Returned(last_func)

FindEntryAfterLoop(m, num_prim_func, main_func, last_func) ==
    IF main_func # NullFunc THEN Returned(main_func)
    ELSE IF num_prim_func = 0
         THEN Fatal("ValueError: Cannot find any PrimFunc in the given IRModule: ", m)
         ELSE IF num_prim_func > 1
              THEN Fatal("ValueError: Multiple PrimFuncs exist in the IRModule", m)
              ELSE Returned(last_func)

RECURSIVE FindEntryLoop(_, _, _, _, _)
\* Mutant: a PrimFunc named "main" is returned before the entry flag is read.
FindEntryLoopMainFirst(m, i, num_prim_func, main_func, last_func) ==
    IF i > Len(m) THEN FindEntryAfterLoop(m, num_prim_func, main_func, last_func)
    ELSE IF m[i].prim
         THEN IF m[i].name = "main" THEN Returned(m[i])
              ELSE IF m[i].entry THEN Returned(m[i])
              ELSE FindEntryLoop(m, i + 1, num_prim_func + 1, main_func, m[i])
         ELSE FindEntryLoop(m, i + 1, num_prim_func, main_func, last_func)

\* Mutant: of several flagged PrimFuncs the last one is returned.
FindEntryLoopLastFlagged(m, i, num_prim_func, main_func, last_func) ==
    IF \E k \in 1..Len(m) : m[k].prim /\ m[k].entry
    THEN Returned(m[CHOOSE k \in 1..Len(m) :
                        /\ m[k].prim /\ m[k].entry
                        /\ \A j \in (k + 1)..Len(m) : ~(m[j].prim /\ m[j].entry)])
    ELSE FindEntryAfterLoop(m, Len(SelectSeq(m, LAMBDA f : f.prim)),
                            IF \E k \in 1..Len(m) : m[k].prim /\ m[k].name = "main"
                            THEN m[CHOOSE k \in 1..Len(m) : m[k].prim /\ m[k].name = "main"]
                            ELSE NullFunc,
                            NullFunc)

FindEntryLoop(m, i, num_prim_func, main_func, last_func) ==
    IF i > Len(m) THEN FindEntryAfterLoop(m, num_prim_func, main_func, last_func)
    ELSE IF m[i].prim
         THEN IF m[i].entry THEN Returned(m[i])
              ELSE FindEntryLoop(m, i + 1, num_prim_func + 1,
                                 IF m[i].name = "main" THEN m[i] ELSE main_func,
                                 m[i])
         ELSE FindEntryLoop(m, i + 1, num_prim_func, main_func, last_func)

FindEntryFunc(m) == FindEntryLoop(m, 1, 0, NullFunc, NullFunc)

(***************************************************************************)
(* tir::transform::RemoveWeightLayoutRewriteBlock: rewrites blocks inside  *)
(* function bodies; names, attributes and parameters are kept.             *)
(***************************************************************************)
RemoveWeightLayoutRewriteBlock(m) == m

(***************************************************************************)
(* ArgInfo::FromEntryFunc. A fatal error of FindEntryFunc propagates.      *)
(***************************************************************************)
FromEntryFunc(m, remove_preproc) ==
    LET new_mod == IF remove_preproc THEN RemoveWeightLayoutRewriteBlock(m) ELSE m
        f == FindEntryFunc(new_mod)
    IN  IF f.kind = "fatal" THEN f ELSE FromPrimFunc(f.value.body)

(***************************************************************************)
(* Strings are sequences of characters, so that formatting and parsing a   *)
(* dtype are computed, character by character.                             *)
(***************************************************************************)
Str_TENSOR == <<"T", "E", "N", "S", "O", "R">>
Str_OTHER == <<"O", "T", "H", "E", "R">>
Str_bool == <<"b", "o", "o", "l">>
Str_int == <<"i", "n", "t">>
Str_uint == <<"u", "i", "n", "t">>
Str_float == <<"f", "l", "o", "a", "t">>
Str_float32 == <<"f", "l", "o", "a", "t", "3", "2">>
Str_float32y == <<"f", "l", "o", "a", "t", "3", "2", "y">>

DigitChars == <<"0", "1", "2", "3", "4", "5", "6", "7", "8", "9">>
IsDigit(c) == \E d \in 1..10 : DigitChars[d] = c
DigitVal(c) == (CHOOSE d \in 1..10 : DigitChars[d] = c) - 1

StartsWith(s, prefix) ==
    Len(s) >= Len(prefix) /\ SubSeq(s, 1, Len(prefix)) = prefix

\* operator<< of an unsigned integer: its decimal digits.
RECURSIVE ToChars(_)
ToChars(n) ==
    IF n < 10 THEN <<DigitChars[n + 1]>>
    ELSE ToChars(n \div 10) \o <<DigitChars[(n % 10) + 1]>>

\* strtoul(s, &end, 10): the value of the leading digits (0 when there are
\* none) and the rest of the string.
RECURSIVE StrToUL(_, _)
StrToUL(s, acc) ==
    IF s # <<>> /\ IsDigit(Head(s))
    THEN StrToUL(Tail(s), acc * 10 + DigitVal(Head(s)))
    ELSE [val |-> acc, rest |-> s]

(***************************************************************************)
(* DLDataTypeToString / StringToDLDataType: "<code><bits>" followed by     *)
(* "x<lanes>" for a vector type; uint1 is written "bool".                  *)
(***************************************************************************)
CodeChars(code) ==
    CASE code = "int" -> Str_int
      [] code = "uint" -> Str_uint
      [] code = "float" -> Str_float

DLDataTypeToString(t) ==
    IF t.bits = 1 /\ t.lanes = 1 /\ t.code = "uint" THEN Str_bool
    ELSE CodeChars(t.code) \o ToChars(t.bits)
         \o (IF t.lanes > 1 THEN <<"x">> \o ToChars(t.lanes) ELSE <<>>)

StringToDLDataTypeTail(s, code, scan) ==
    LET b == StrToUL(scan, 0)
        bits == IF b.val # 0 THEN b.val ELSE 32
        l == IF b.rest # <<>> /\ Head(b.rest) = "x"
             THEN StrToUL(Tail(b.rest), 0)
             ELSE [val |-> 1, rest |-> b.rest]
    IN  IF l.rest = <<>>
        THEN Returned([code |-> code, bits |-> bits, lanes |-> l.val])
        ELSE Fatal("unknown type ", s)

StringToDLDataType(s) ==
    IF StartsWith(s, Str_int)
    THEN StringToDLDataTypeTail(s, "int", SubSeq(s, 4, Len(s)))
    ELSE IF StartsWith(s, Str_uint)
    THEN StringToDLDataTypeTail(s, "uint", SubSeq(s, 5, Len(s)))
    ELSE IF StartsWith(s, Str_float)
    THEN StringToDLDataTypeTail(s, "float", SubSeq(s, 6, Len(s)))
    ELSE IF s = Str_bool
    THEN Returned([code |-> "uint", bits |-> 1, lanes |-> 1])
    ELSE Fatal("unknown type ", s)

(***************************************************************************)
(* JSON objects (ffi::Any): a string, an integer, an array or null.        *)
(***************************************************************************)
\* `t` is the type; `s`, `n` and `v` hold the value of a string, an integer
\* and an array.
JStr(s) == [t |-> "str", s |-> s, n |-> 0, v |-> <<>>]
JInt(n) == [t |-> "int", s |-> <<>>, n |-> n, v |-> <<>>]
JArr(a) == [t |-> "arr", s |-> <<>>, n |-> 0, v |-> a]
JNull == [t |-> "null", s |-> <<>>, n |-> 0, v |-> <<>>]

\* support::AsArray(ffi::Shape): one Integer per extent, in order.
RECURSIVE AsArray(_)
AsArray(shape) ==
    IF shape = <<>> THEN <<>>
    ELSE <<JInt(Head(shape))>> \o AsArray(Tail(shape))

\* AsIntArray(obj): the array of Integer that obj holds; throws when obj is
\* not an array or holds an element that is not an integer.
AsIntArray(obj) ==
    IF obj.t # "arr" THEN Fatal("TypeError: Expect an array", obj)
    ELSE IF \E i \in 1..Len(obj.v) : obj.v[i].t # "int"
         THEN Fatal("TypeError: Expect an array of integers", obj)
         ELSE Returned(obj.v)

\* Any::cast<String>(): throws unless the value is a string.
CastString(any) ==
    IF any.t = "str" THEN Returned(any.s)
    ELSE Fatal("TypeError: cannot convert to String", any)

(***************************************************************************)
(* TensorInfoNode::AsJSON.                                                 *)
(***************************************************************************)
\* Mutant: the shape is written before the dtype.
AsJSONShapeFirst(x) ==
    JArr(<<JStr(Str_TENSOR), JArr(AsArray(x.shape)), JStr(DLDataTypeToString(x.dtype))>>)

AsJSON(x) ==
    LET tag == Str_TENSOR
        dtype == DLDataTypeToString(x.dtype)
        shape == AsArray(x.shape)
    IN  JArr(<<JStr(tag), JStr(dtype), JArr(shape)>>)

(***************************************************************************)
(* TensorInfo::FromJSON. Everything thrown inside the try block is caught  *)
(* and reported by LOG(FATAL) with the JSON object in the message.         *)
(***************************************************************************)
ParseError(json) == Fatal("ValueError: Unable to parse the JSON object: ", json)

\* std::transform(shape.begin(), shape.end(), ..., IntValue)
RECURSIVE IntValues(_)
IntValues(shape) ==
    IF shape = <<>> THEN <<>>
    ELSE <<Head(shape).n>> \o IntValues(Tail(shape))

\* Mutant: the first extent is left out.
TensorInfoFromJSONDropFirst(json) ==
    IF ~(json.t = "arr" /\ Len(json.v) = 3) THEN ParseError(json)
    ELSE LET dtype_str == CastString(json.v[2])
             dtype == IF dtype_str.kind = "ok"
                      THEN StringToDLDataType(dtype_str.value) ELSE dtype_str
             shape == AsIntArray(json.v[3])
         IN  IF dtype.kind # "ok" \/ shape.kind # "ok" THEN ParseError(json)
             ELSE Returned(TensorInfo(dtype.value,
                      IF shape.value = <<>> THEN <<>>
                      ELSE IntValues(Tail(shape.value))))

TensorInfoFromJSON(json) ==
    IF ~(json.t = "arr" /\ Len(json.v) = 3) THEN ParseError(json)
    ELSE LET dtype_str == CastString(json.v[2])
             dtype == IF dtype_str.kind = "ok"
                      THEN StringToDLDataType(dtype_str.value) ELSE dtype_str
             shape == AsIntArray(json.v[3])
         IN  IF dtype.kind # "ok" \/ shape.kind # "ok" THEN ParseError(json)
             ELSE Returned(TensorInfo(dtype.value, IntValues(shape.value)))

(***************************************************************************)
(* ArgInfo::FromJSON: extract the tag, then dispatch on it.                *)
(***************************************************************************)
\* Mutant: every tag is dispatched to TensorInfo::FromJSON.
ArgInfoFromJSONAnyTag(json) ==
    IF ~(json.t = "arr" /\ Len(json.v) >= 1) THEN ParseError(json)
    ELSE LET tag == CastString(json.v[1])
         IN  IF tag.kind # "ok" THEN ParseError(json)
             ELSE TensorInfoFromJSON(json)

ArgInfoFromJSON(json) ==
    IF ~(json.t = "arr" /\ Len(json.v) >= 1) THEN ParseError(json)
    ELSE LET tag == CastString(json.v[1])
         IN  IF tag.kind # "ok" THEN ParseError(json)
             ELSE IF tag.value = Str_TENSOR THEN TensorInfoFromJSON(json)
             ELSE ParseError(json)

(***************************************************************************)
(* Inputs of SpecJSON.                                                     *)
(***************************************************************************)
TensorInfos == [dtype : DataTypes, shape : Shapes]

JsonElems == {JStr(Str_TENSOR), JStr(Str_OTHER), JStr(Str_float32), JStr(Str_float32y),
              JInt(1), JArr(<<JInt(1), JInt(224)>>), JArr(<<JStr(Str_OTHER)>>)}

JsonInputs == {JNull, JStr(Str_TENSOR), JInt(3)}
              \cup {JArr(a) : a \in SeqsUpTo(JsonElems, MaxJsonLen)}

NoTensor == [dtype |-> [code |-> "none", bits |-> 0, lanes |-> 0], shape |-> <<>>]
NoJson == [t |-> "unset", s |-> <<>>, n |-> 0, v |-> <<>>]

(***************************************************************************)
(* The workload of the mutator. Blocks 1, 2, 3 form a chain: block 2       *)
(* consumes block 1 and block 3, the output, consumes block 2. `loops[b]`  *)
(* is the number of loops around block b when it stands at the root,       *)
(* `inline` the blocks that can be inlined. A schedule state gives, for    *)
(* blocks 1 and 2, where the block is computed: -2 inlined, -1 at the      *)
(* root, l >= 0 under loop l of its consumer.                              *)
(***************************************************************************)
SampledBlocks == {1, 2}
Locs == (0 - 2)..(MaxLoops - 1)
Programs == [loops : [{2, 3} -> 0..MaxLoops], inline : SUBSET SampledBlocks]

InitialState == [b \in SampledBlocks |-> 0 - 1]

\* SaveJSON / LoadJSON: the serialized form of a module and its reading.
NotBound == [json |-> "", loops |-> <<>>, inline |-> {}]
SaveJSON(p) == [json |-> "IRModule", loops |-> p.loops, inline |-> p.inline]
LoadJSON(json) == [loops |-> json.loops, inline |-> json.inline]

\* Number of loops that enclose the consumer of block b in state st.
ConsumerDepth(p, st, b) ==
    IF b = 2 THEN p.loops[3]
    ELSE IF st[2] = 0 - 1 THEN p.loops[2]
    ELSE IF st[2] = 0 - 2 THEN p.loops[3]
    ELSE st[2] + 1

\* CollectComputeLocation: the legal locations of block b in state st, in
\* increasing order: inline (-2) when the block can be inlined, the root
\* (-1), and every loop of the consumer.
CollectComputeLocation(p, st, b) ==
    (IF b \in p.inline THEN <<0 - 2>> ELSE <<>>) \o <<0 - 1>>
    \o [k \in 1..ConsumerDepth(p, st, b) |-> k - 1]

(***************************************************************************)
(* Traces. An instruction has a kind; a SampleComputeLocation instruction  *)
(* has one input, a block, and a decision. The instructions from the first *)
(* postprocessing instruction on are the postprocessing part of a trace.   *)
(***************************************************************************)
Instructions ==
    [kind : {"SampleComputeLocation"}, block : SampledBlocks, decision : Locs]
    \cup [kind : {"GetBlock", "EnterPostproc"}, block : {0}, decision : {0}]

Traces == SeqsUpTo(Instructions, MaxTraceLen)

IsPostproc(inst) == inst.kind = "EnterPostproc"

RECURSIVE RemovePostproc(_)
RemovePostproc(insts) ==
    IF insts = <<>> \/ IsPostproc(Head(insts)) THEN <<>>
    ELSE <<Head(insts)>> \o RemovePostproc(Tail(insts))

\* Trace::WithDecision(inst, decision, remove_postproc): a new trace, with
\* the decision of instruction number i replaced.
WithDecision(t, i, decision, remove_postproc) ==
    LET insts == IF remove_postproc THEN RemovePostproc(t) ELSE t
    IN  [k \in 1..Len(insts) |->
            IF k = i THEN [insts[k] EXCEPT !.decision = decision] ELSE insts[k]]

\* Applying one instruction to the schedule: a SampleComputeLocation
\* decision that is not a legal location of the block raises a
\* ScheduleError; otherwise the block is moved there.
ScheduleError == [ok |-> FALSE, st |-> InitialState]

ApplyInstruction(p, st, inst, decision) ==
    IF inst.kind # "SampleComputeLocation" THEN [ok |-> TRUE, st |-> st]
    ELSE IF \E k \in DOMAIN CollectComputeLocation(p, st, inst.block) :
                CollectComputeLocation(p, st, inst.block)[k] = decision
         THEN [ok |-> TRUE, st |-> [st EXCEPT ![inst.block] = decision]]
         ELSE ScheduleError

(***************************************************************************)
(* The random state: a linear congruential engine.                         *)
(***************************************************************************)
RandModulus == 7
RandMultiplier == 3

RandNext(s) == (s * RandMultiplier) % RandModulus

\* ForkSeed(rand_state): advances the state; the seed of the new stream.
ForkSeed(s) == [seed |-> RandNext(s), rand_state |-> RandNext(s)]

\* SampleInt(rand_state, lo, hi): advances the state; a value in [lo, hi).
SampleInt(s, lo, hi) ==
    [value |-> lo + (RandNext(s) % (hi - lo)), rand_state |-> RandNext(s)]

(***************************************************************************)
(* MutateComputeLocationNode::FindCandidates.                              *)
(***************************************************************************)
\* std::find: the first index of x in s, or 0.
Find(s, x) ==
    IF \E k \in 1..Len(s) : s[k] = x
    THEN CHOOSE k \in 1..Len(s) : s[k] = x /\ \A j \in 1..(k - 1) : s[j] # x
    ELSE 0

\* std::vector::erase of one position.
Erase(s, k) == SubSeq(s, 1, k - 1) \o SubSeq(s, k + 1, Len(s))

\* Mutant: the old decision stays among the locations.
RemoveOldDecisionKeepsIt(location_indices, old_decision) == location_indices

\* Mutant: when the old decision is not found, the first location is erased.
RemoveOldDecisionAlwaysErases(location_indices, old_decision) ==
    LET it == Find(location_indices, old_decision)
    IN  IF it # 0 THEN Erase(location_indices, it) ELSE Erase(location_indices, 1)

\* Step 3 of the decision provider.
RemoveOldDecision(location_indices, old_decision) ==
    LET it == Find(location_indices, old_decision)
    IN  IF it # 0 THEN Erase(location_indices, it) ELSE location_indices

\* f_decision_provider: the candidates after instruction number i is seen.
DecisionProvider(p, st, insts, i, candidates) ==
    IF insts[i].kind = "SampleComputeLocation"
    THEN LET old_decision == insts[i].decision
             location_indices ==
                 RemoveOldDecision(CollectComputeLocation(p, st, insts[i].block),
                                   old_decision)
         IN  IF location_indices # <<>>
             THEN Append(candidates, [inst |-> i, locs |-> location_indices])
             ELSE candidates
    ELSE candidates

\* trace->ApplyToSchedule(sch, remove_postproc = true, f_decision_provider):
\* each instruction is shown to the provider, then applied with the decision
\* the provider returns, which is the recorded one.
RECURSIVE ReplayLoop(_, _, _, _, _)
ReplayLoop(p, st, insts, i, candidates) ==
    IF i > Len(insts) THEN Returned(candidates)
    ELSE LET seen == DecisionProvider(p, st, insts, i, candidates)
             next == ApplyInstruction(p, st, insts[i], insts[i].decision)
         IN  IF next.ok THEN ReplayLoop(p, next.st, insts, i + 1, seen)
             ELSE Fatal("ScheduleError", insts[i])

FindCandidates(json, t) ==
    ReplayLoop(LoadJSON(json), InitialState, RemovePostproc(t), 1, <<>>)

(***************************************************************************)
(* MutateComputeLocationNode::Apply: the outcome and the random state.     *)
(***************************************************************************)
Nullopt == [kind |-> "nullopt", value |-> <<>>, what |-> "", payload |-> NoPayload]

\* Mutant: WithDecision is called with remove_postproc = false.
ApplyKeepsPostproc(json, t, rs) ==
    LET fork == ForkSeed(rs)
        candidates == FindCandidates(json, t)
    IN  IF candidates.kind = "fatal"
        THEN [out |-> candidates, rand_state |-> fork.rand_state]
        ELSE IF candidates.value = <<>>
        THEN [out |-> Nullopt, rand_state |-> fork.rand_state]
        ELSE LET c == SampleInt(fork.rand_state, 0, Len(candidates.value))
                 candidate == candidates.value[c.value + 1]
                 l == SampleInt(c.rand_state, 0, Len(candidate.locs))
                 loc == candidate.locs[l.value + 1]
             IN  [out |-> Returned(WithDecision(t, candidate.inst, loc, FALSE)),
                  rand_state |-> l.rand_state]

Apply(json, t, rs) ==
    LET fork == ForkSeed(rs)
        candidates == FindCandidates(json, t)
    IN  IF candidates.kind = "fatal"
        THEN [out |-> candidates, rand_state |-> fork.rand_state]
        ELSE IF candidates.value = <<>>
        THEN [out |-> Nullopt, rand_state |-> fork.rand_state]
        ELSE LET c == SampleInt(fork.rand_state, 0, Len(candidates.value))
                 candidate == candidates.value[c.value + 1]
                 l == SampleInt(c.rand_state, 0, Len(candidate.locs))
                 loc == candidate.locs[l.value + 1]
             IN  [out |-> Returned(WithDecision(t, candidate.inst, loc, TRUE)),
                  rand_state |-> l.rand_state]

(***************************************************************************)
(* Several mutators and several threads. Mutator 1 is made by the          *)
(* constructor, mutator 2 by Clone. Thread m calls Apply on mutator m with *)
(* its own random state; the statements of one Apply call are steps that   *)
(* interleave with the steps of the other thread.                          *)
(***************************************************************************)
Mutators == {1, 2}

\* Largest number of Apply calls of one thread.
MaxCalls == 2

\* A MutateComputeLocationNode that does not exist, and a constructed one.
NoMutator == [made |-> FALSE, json_mod_ |-> NotBound]
NewMutator == [made |-> TRUE, json_mod_ |-> NotBound]

\* Mutant: json_mod_ is one storage shared by all mutators.
InitializeNodeShared(ms, m, context_mod) ==
    [k \in Mutators |->
        IF ms[k].made THEN [made |-> TRUE, json_mod_ |-> SaveJSON(context_mod)]
        ELSE ms[k]]

\* InitializeWithTuneContext of mutator m: this->json_mod_ = SaveJSON(mod).
InitializeNode(ms, m, context_mod) ==
    [ms EXCEPT ![m] = [made |-> TRUE, json_mod_ |-> SaveJSON(context_mod)]]

\* Clone of mutator 1: make_object<MutateComputeLocationNode>(*this); the
\* copy constructor copies the std::string json_mod_.
CloneNode(ms) == [ms EXCEPT ![2] = [made |-> TRUE, json_mod_ |-> ms[1].json_mod_]]

\* The locals of an Apply call that has not started.
NoSchedule == [live |-> FALSE, p |-> LoadJSON(NotBound), st |-> InitialState]
NoCandidate == [inst |-> 0, locs |-> <<>>]

\* Mutant: the schedule state of the earlier call is kept and replayed on.
StepTracedKeepsSchedule(cs, m, json) ==
    [cs EXCEPT ![m] =
        [pc |-> "traced",
         trace |-> cs[m].trace,
         rand_state |-> ForkSeed(cs[m].rand_state).rand_state,
         sch |-> IF cs[m].sch.live THEN cs[m].sch
                 ELSE [live |-> TRUE, p |-> LoadJSON(json), st |-> InitialState],
         candidates |-> NotCalled,
         candidate |-> NoCandidate,
         out |-> NotCalled]]

\* tir::Schedule::Traced(LoadJSON(json_mod_), ForkSeed(rand_state), ...) of
\* thread m: a new schedule state, and the thread's random state advanced.
StepTraced(cs, m, json) ==
    [cs EXCEPT ![m] =
        [pc |-> "traced",
         trace |-> cs[m].trace,
         rand_state |-> ForkSeed(cs[m].rand_state).rand_state,
         sch |-> [live |-> TRUE, p |-> LoadJSON(json), st |-> InitialState],
         candidates |-> NotCalled,
         candidate |-> NoCandidate,
         out |-> NotCalled]]

\* The schedule state a replay leaves behind.
RECURSIVE ReplayState(_, _, _, _)
ReplayState(p, st, insts, i) ==
    IF i > Len(insts) THEN st
    ELSE LET next == ApplyInstruction(p, st, insts[i], insts[i].decision)
         IN  IF next.ok THEN ReplayState(p, next.st, insts, i + 1) ELSE st

\* trace->ApplyToSchedule(sch, true, f_decision_provider) of thread m; a
\* ScheduleError leaves Apply.
StepReplay(cs, m) ==
    LET c == cs[m]
        insts == RemovePostproc(c.trace)
        found_candidates == ReplayLoop(c.sch.p, c.sch.st, insts, 1, <<>>)
        after == [c.sch EXCEPT !.st = ReplayState(c.sch.p, c.sch.st, insts, 1)]
    IN  [cs EXCEPT ![m] =
            IF found_candidates.kind = "fatal"
            THEN [c EXCEPT !.pc = "idle", !.sch = after, !.out = found_candidates]
            ELSE [c EXCEPT !.pc = "replayed", !.sch = after,
                           !.candidates = found_candidates]]

\* Mutant: every call samples from the random state of thread 1.
RandStateOfFirst(cs, m) == 1

\* The random state an Apply call of thread m samples from: its rand_state
\* argument.
RandStateOf(cs, m) == m

\* Mutant: the sample is drawn before the candidates are tested for empty.
StepPickInstSamplesFirst(cs, m) ==
    LET c == cs[m]
        n == SampleInt(c.rand_state, 0, Len(c.candidates.value) + 1)
    IN  IF c.candidates.value = <<>>
        THEN [cs EXCEPT ![m] = [c EXCEPT !.pc = "idle", !.out = Nullopt,
                                         !.rand_state = n.rand_state]]
        ELSE [cs EXCEPT ![m] =
                 [c EXCEPT !.pc = "picked",
                           !.rand_state = n.rand_state,
                           !.candidate =
                               c.candidates.value[(n.value % Len(c.candidates.value)) + 1]]]

\* if (candidates.empty()) return std::nullopt;
\* candidates[SampleInt(rand_state, 0, candidates.size())]
StepPickInst(cs, m) ==
    LET c == cs[m]
        r == RandStateOf(cs, m)
        n == SampleInt(cs[r].rand_state, 0, Len(c.candidates.value))
    IN  IF c.candidates.value = <<>>
        THEN [cs EXCEPT ![m] = [c EXCEPT !.pc = "idle", !.out = Nullopt]]
        ELSE [k \in Mutators |->
                 LET sampled == IF k = r THEN [cs[k] EXCEPT !.rand_state = n.rand_state]
                                ELSE cs[k]
                 IN  IF k = m
                     THEN [sampled EXCEPT !.pc = "picked",
                                          !.candidate = c.candidates.value[n.value + 1]]
                     ELSE sampled]

\* Mutant: the location also depends on which thread runs the call.
StepPickLocByThread(cs, m) ==
    LET c == cs[m]
        r == RandStateOf(cs, m)
        n == SampleInt(cs[r].rand_state, 0, Len(c.candidate.locs))
        loc == c.candidate.locs[((n.value + m) % Len(c.candidate.locs)) + 1]
    IN  [k \in Mutators |->
            LET sampled == IF k = r THEN [cs[k] EXCEPT !.rand_state = n.rand_state]
                           ELSE cs[k]
            IN  IF k = m
                THEN [sampled EXCEPT
                         !.pc = "idle",
                         !.out = Returned(WithDecision(c.trace, c.candidate.inst, loc, TRUE))]
                ELSE sampled]

\* locs[SampleInt(rand_state, 0, locs.size())];
\* return trace->WithDecision(inst, Integer(loc), true)
StepPickLoc(cs, m) ==
    LET c == cs[m]
        r == RandStateOf(cs, m)
        n == SampleInt(cs[r].rand_state, 0, Len(c.candidate.locs))
        loc == c.candidate.locs[n.value + 1]
    IN  [k \in Mutators |->
            LET sampled == IF k = r THEN [cs[k] EXCEPT !.rand_state = n.rand_state]
                           ELSE cs[k]
            IN  IF k = m
                THEN [sampled EXCEPT
                         !.pc = "idle",
                         !.out = Returned(WithDecision(c.trace, c.candidate.inst, loc, TRUE))]
                ELSE sampled]

\* The workloads and traces of SpecClone.
ClonePrograms ==
    {p \in Programs : p.inline = {} /\ p.loops[2] = p.loops[3] /\ p.loops[2] \in {0, 2}}

CloneTraces ==
    {t \in Traces : /\ Len(t) = 2
                    /\ t[1] = [kind |-> "SampleComputeLocation", block |-> 2,
                               decision |-> 0 - 1]
                    /\ t[2].kind = "SampleComputeLocation"
                    /\ t[2].block = 1
                    /\ t[2].decision \in {0 - 1, 0}}

CloneSeeds == {1, 2}

IdleCaller(t, rs) ==
    [pc |-> "idle", trace |-> t, rand_state |-> rs, sch |-> NoSchedule,
     candidates |-> NotCalled, candidate |-> NoCandidate, out |-> NotCalled]

NoGhost ==
    [expected |-> [m \in Mutators |-> NotBound],
     json0 |-> [m \in Mutators |-> NotBound],
     trace0 |-> [m \in Mutators |-> <<>>],
     rs0 |-> [m \in Mutators |-> 0],
     calls |-> [m \in Mutators |-> 0],
     previous |-> [m \in Mutators |-> "none"],
     overlapped |-> FALSE]

CloneIdle ==
    /\ mutators = [m \in Mutators |-> NoMutator]
    /\ callers = [m \in Mutators |-> IdleCaller(<<>>, 1)]
    /\ ghost = NoGhost

(***************************************************************************)
(* The measurement round. An Optional<String> is a sequence of at most one *)
(* string. The builder and the runner are external: they are what section  *)
(* 4.4 of the specification says of them.                                   *)
(***************************************************************************)
Paths == {"a", "b"}

\* BuilderResult: exactly one of artifact_path and error is populated.
BuilderResults ==
    {[artifact_path |-> <<path>>, error |-> <<>>] : path \in Paths}
        \cup {[artifact_path |-> <<>>, error |-> <<"build failed">>]}

\* Mutant: the runner runs a candidate that has no artifact.
RunOneAlways(build_result, outcome) ==
    IF outcome = "latency"
    THEN [latency |-> <<1>>, error |-> <<>>, artifact |-> <<"none">>]
    ELSE [latency |-> <<>>, error |-> <<"run failed">>, artifact |-> <<"none">>]

\* The RunnerResult of one candidate, with the artifact it was measured on:
\* a candidate whose build failed is not run, its result carries an error.
RunOne(build_result, outcome) ==
    IF build_result.artifact_path = <<>>
    THEN [latency |-> <<>>, error |-> <<"build failed">>, artifact |-> <<>>]
    ELSE IF outcome = "latency"
    THEN [latency |-> <<1>>, error |-> <<>>, artifact |-> build_result.artifact_path]
    ELSE [latency |-> <<>>, error |-> <<"run failed">>,
          artifact |-> build_result.artifact_path]

(***************************************************************************)
(* RemoveBuildArtifactNode::Apply. f_rm is the global function             *)
(* "meta_schedule.remove_build_dir"; `fails` are the positions of the      *)
(* array at which a call of it throws. Nothing in Apply catches, so the    *)
(* exception leaves the loop and Apply.                                    *)
(***************************************************************************)
NoCallback == [status |-> "none", calls |-> <<>>, visited |-> 0]

RECURSIVE RemoveLoop(_, _, _, _)
RemoveLoop(results, i, calls, fails) ==
    IF i > Len(results) THEN [status |-> "returned", calls |-> calls, visited |-> Len(results)]
    ELSE LET path == results[i].artifact_path
         IN  IF path # <<>>
             THEN IF i \in fails
                  THEN [status |-> "threw", calls |-> Append(calls, path[1]), visited |-> i]
                  ELSE RemoveLoop(results, i + 1, Append(calls, path[1]), fails)
             ELSE RemoveLoop(results, i + 1, calls, fails)

RemoveBuildArtifact(results, fails) == RemoveLoop(results, 1, <<>>, fails)

RoundIdle ==
    /\ measure_candidates = <<>>
    /\ builder_results = <<>>
    /\ runner_results = <<>>
    /\ callback = NoCallback
    /\ round_pc = "none"

(***************************************************************************)
(* f_decision_provider on its own: one instruction of a replay, seen in    *)
(* a schedule state the replay can be in.                                  *)
(***************************************************************************)
\* The schedule states of program p after at most two instructions.
AfterOne(p, S) ==
    {ApplyInstruction(p, st, [kind |-> "SampleComputeLocation", block |-> b,
                              decision |-> d], d).st :
        st \in S, b \in SampledBlocks, d \in Locs}

ScheduleStates(p) ==
    {InitialState} \cup AfterOne(p, {InitialState})
        \cup AfterOne(p, AfterOne(p, {InitialState}))

\* return decision; (the provider hands the recorded decision back)
ProvidedDecision(inst, decision) == decision

NoProviderInput ==
    [p |-> LoadJSON(NotBound), st |-> InitialState,
     inst |-> [kind |-> "GetBlock", block |-> 0, decision |-> 0]]

NoProviderOutput == [called |-> FALSE, candidates |-> <<>>, decision |-> 0]

ProvIdle ==
    /\ prov_in = NoProviderInput
    /\ prov_out = NoProviderOutput

(***************************************************************************)
(* relax::UpdateStructInfo. An expression holds an optional struct info,   *)
(* a sequence of at most one value.                                        *)
(***************************************************************************)
StructInfos == {"ObjectStructInfo", "PrimStructInfo", "TensorStructInfo"}

\* Largest number of UpdateStructInfo calls on the expression.
MaxUpdates == 3

\* Mutant: the ICHECK is missing, the struct info is overwritten.
UpdateStructInfoOverwrites(e, struct_info) ==
    [expr |-> [e EXCEPT !.struct_info_ = <<struct_info>>],
     out |-> Returned(<<>>)]

\* UpdateStructInfo(expr, struct_info): the expression and the outcome.
UpdateStructInfo(e, struct_info) ==
    IF e.struct_info_ # <<>>
    THEN [expr |-> e,
          out |-> Fatal("To ensure idempotency, the expression passed to UpdateStructInfo must not have any prior StructInfo.",
                        <<e.struct_info_[1], struct_info>>)]
    ELSE [expr |-> [e EXCEPT !.struct_info_ = <<struct_info>>],
          out |-> Returned(<<>>)]

SinfoIdle ==
    /\ expr = [struct_info_ |-> <<>>]
    /\ sinfo_log = <<>>

(***************************************************************************)
(* Target attribute maps (Map<String, ffi::Any>) and the target parsers of *)
(* the cuda, nvptx and rocm kinds. A value is a string (a sequence of      *)
(* characters), an integer or an array of strings; a key that is not in    *)
(* the map holds Absent.                                                   *)
(***************************************************************************)
Absent == [t |-> "absent", s |-> <<>>]
StrAny(s) == [t |-> "str", s |-> s]
IntAny == [t |-> "int", s |-> <<"1">>]
ArrayAny(s) == [t |-> "array", s |-> s]

Str_sm_ == <<"s", "m", "_">>
Str_gfx == <<"g", "f", "x">>
Str_gfx900 == <<"g", "f", "x", "9", "0", "0">>
Str_gfx906 == <<"g", "f", "x", "9", "0", "6">>
Str_nvptx_triple == <<"nvptx64", "-", "nvidia", "-", "cuda">>
Str_rocm_triple == <<"amdgcn", "-", "amd", "-", "amdhsa", "-", "hcc">>
Str_other_triple == <<"x86_64", "-", "linux", "-", "gnu">>
Str_code_object == <<"-code-object-v3">>

AttrKeys == {"mtriple", "mcpu", "arch", "mattr"}

ArchValues ==
    {Absent, IntAny, StrAny(<<"s", "m", "_", "7", "5">>), StrAny(<<"s", "m", "_">>),
     StrAny(<<"s", "m">>), StrAny(<<"7", "5">>), StrAny(Str_gfx900), StrAny(Str_gfx)}

TripleValues ==
    {Absent, IntAny, StrAny(Str_nvptx_triple), StrAny(Str_rocm_triple),
     StrAny(Str_other_triple)}

MattrValues == {Absent, IntAny, ArrayAny(<<"+sramecc">>)}

Targets ==
    {t \in [AttrKeys -> ArchValues \cup TripleValues \cup MattrValues] :
        /\ t["mtriple"] \in TripleValues
        /\ t["mcpu"] \in ArchValues
        /\ t["arch"] \in {Absent, IntAny, StrAny(<<"s", "m", "_", "7", "5">>),
                          StrAny(<<"7", "5">>)}
        /\ t["mattr"] \in MattrValues}

\* What the device API reports: no device, or the compute version of the
\* first CUDA device as "major.minor"; for ROCm the API version.
NoDevice == <<>>
ComputeVersions == {NoDevice, <<"7", ".", "5">>, <<"8", ".", "0">>}
RocmVersions == {0, 304, 305}
RocmArchCallbacks == {<<>>, Str_gfx906}

\* The result of a call on a map: the map after the call, and whether the
\* call returned (ok) or an ICHECK / Downcast threw (what is the message).
Done_(t) == [target |-> t, ok |-> TRUE, what |-> ""]
Threw(t, msg) == [target |-> t, ok |-> FALSE, what |-> msg]

\* Mutant: the attribute is set whether it is present or not.
CheckOrSetAttrOverwrites(attrs, name, value) ==
    Done_([attrs EXCEPT ![name] = StrAny(value)])

CheckOrSetAttr(attrs, name, value) ==
    IF attrs[name] = Absent
    THEN Done_([attrs EXCEPT ![name] = StrAny(value)])
    ELSE IF attrs[name].t = "str" /\ attrs[name].s = value
    THEN Done_(attrs)
    ELSE Threw(attrs, "ValueError: Expects name to be value")

\* std::stod(version) * 10 + 0.1, cut to an int, for "major.minor".
ArchOfVersion(version) == DigitVal(version[1]) * 10 + DigitVal(version[3])

\* The architecture number used when the attribute is absent.
DetectedArch(version) == IF version = NoDevice THEN 50 ELSE ArchOfVersion(version)

\* Mutant: the architecture is taken from the device even when given.
UpdateCUDAAttrsAlwaysDetects(target, version) ==
    Done_([target EXCEPT !["arch"] = StrAny(Str_sm_ \o ToChars(DetectedArch(version)))])

UpdateCUDAAttrs(target, version) ==
    IF target["arch"] # Absent
    THEN IF target["arch"].t # "str"
         THEN Threw(target, "Downcast<String> failed")
         ELSE IF StartsWith(target["arch"].s, Str_sm_)
         THEN Done_(target)
         ELSE Threw(target, "ValueError: CUDA target gets an invalid CUDA arch")
    ELSE Done_([target EXCEPT !["arch"] = StrAny(Str_sm_ \o ToChars(DetectedArch(version)))])

UpdateNVPTXAttrs(target, version) ==
    LET checked == CheckOrSetAttr(target, "mtriple", Str_nvptx_triple)
        t == checked.target
    IN  IF ~checked.ok THEN Threw(target, checked.what)
        ELSE IF t["mcpu"] # Absent
        THEN IF t["mcpu"].t # "str"
             THEN Threw(target, "Downcast<String> failed")
             ELSE IF StartsWith(t["mcpu"].s, Str_sm_)
             THEN Done_(t)
             ELSE Threw(target, "ValueError: NVPTX target gets an invalid CUDA arch")
        ELSE Done_([t EXCEPT !["mcpu"] = StrAny(Str_sm_ \o ToChars(DetectedArch(version)))])

\* std::isdigit(c) || std::isalpha(c)
IsAlnum(c) == IsDigit(c) \/ c \in {"s", "m", "g", "f", "x"}

\* ExtractStringWithPrefix(str, prefix): the letters and digits that follow
\* the prefix, "" when str does not start with it.
RECURSIVE AlnumPrefix(_)
AlnumPrefix(s) ==
    IF s # <<>> /\ IsAlnum(Head(s)) THEN <<Head(s)>> \o AlnumPrefix(Tail(s)) ELSE <<>>

ExtractStringWithPrefix(str, prefix) ==
    IF ~StartsWith(str, prefix) THEN <<>>
    ELSE AlnumPrefix(SubSeq(str, Len(prefix) + 1, Len(str)))

UpdateROCmAttrs(target, arch_callback, api_version) ==
    LET checked == CheckOrSetAttr(target, "mtriple", Str_rocm_triple)
        t == checked.target
        version == IF api_version = 0 THEN 305 ELSE api_version
        with_mcpu ==
            IF t["mcpu"] # Absent THEN t
            ELSE [t EXCEPT !["mcpu"] =
                     StrAny(IF arch_callback # <<>> THEN arch_callback ELSE Str_gfx900)]
        mattr == IF with_mcpu["mattr"] # Absent THEN with_mcpu["mattr"].s ELSE <<>>
    IN  IF ~checked.ok THEN Threw(target, checked.what)
        ELSE IF t["mcpu"] # Absent /\ t["mcpu"].t # "str"
        THEN Threw(target, "Downcast<String> failed")
        ELSE IF t["mcpu"] # Absent /\ ExtractStringWithPrefix(t["mcpu"].s, Str_gfx) = <<>>
        THEN Threw(target, "ValueError: ROCm target gets an invalid GFX version")
        ELSE IF version < 305
        THEN IF with_mcpu["mattr"] # Absent /\ with_mcpu["mattr"].t # "array"
             THEN Threw(target, "Downcast<Array<String>> failed")
             ELSE Done_([with_mcpu EXCEPT !["mattr"] = ArrayAny(mattr \o Str_code_object)])
        ELSE Done_(with_mcpu)

\* Largest number of calls made on one target.
MaxParses == 2

NoTarget == [k \in AttrKeys |-> Absent]
NoParse ==
    [op |-> "none", name |-> "", value |-> <<>>, before |-> NoTarget,
     ok |-> TRUE, n |-> 0]

TargetIdle ==
    /\ tgt_attrs = NoTarget
    /\ tgt_last = NoParse

(***************************************************************************)
(* The task scheduler, as section 4.5 of the specification describes it.   *)
(* One round is in flight at a time; `current` is the task whose round it  *)
(* is, 0 when there is none.                                               *)
(***************************************************************************)
Tasks == {1, 2}

\* Largest trial budget of a task.
MaxBudget == 2
\* Largest number of candidates asked of a search strategy in one round.
MaxBatch == 2

NewTask(budget) ==
    [state |-> "PENDING", budget |-> budget, batch |-> 0, failed |-> 0,
     requested |-> FALSE, built |-> FALSE, ran |-> FALSE, callbacks |-> 0,
     reply |-> 0 - 1, early_stop |-> FALSE, round |-> 0, called_round |-> 0]

Min(a, b) == IF a <= b THEN a ELSE b

\* Mutant: a task that is not RUNNING may be selected too.
SelectableAny(ts) == {t \in Tasks : ts[t].state \in {"PENDING", "RUNNING"}}

\* The tasks a scheduling tick may select.
Selectable(ts) == {t \in Tasks : ts[t].state = "RUNNING"}

\* Mutant: the callbacks may be invoked as soon as the build is complete.
CallbackReadyAfterBuild(task) == task.requested /\ task.built /\ task.callbacks = 0

\* The callbacks of a round may be invoked: build and run are complete.
CallbackReady(task) == task.requested /\ task.built /\ task.ran /\ task.callbacks = 0

\* Mutant: the scheduler stops as soon as one task is retired.
AllRetiredSome(ts) == \E t \in Tasks : ts[t].state \in {"COMPLETED", "EXHAUSTED"}

\* The scheduler terminates when all tasks are COMPLETED or EXHAUSTED.
AllRetired(ts) == \A t \in Tasks : ts[t].state \in {"COMPLETED", "EXHAUSTED"}

\* The state of a task after the results of a round are fed back.
StateAfterRound(early_stop, budget_left) ==
    IF early_stop THEN "COMPLETED"
    ELSE IF budget_left = 0 THEN "EXHAUSTED"
    ELSE "RUNNING"

SchedIdle ==
    /\ tasks = [t \in Tasks |-> NewTask(0)]
    /\ sched = [current |-> 0, terminated |-> FALSE]

RestIdle ==
    /\ ProvIdle
    /\ SinfoIdle
    /\ TargetIdle
    /\ SchedIdle

(***************************************************************************)
(* SpecEntry: a module is given; FindEntryFunc and FromEntryFunc are       *)
(* called on it.                                                           *)
(***************************************************************************)
EntryIdle ==
    /\ mod = <<>>
    /\ found = NotCalled
    /\ entry_args = NotCalled

ArgsIdle ==
    /\ func = <<>>
    /\ args = NotCalled

JsonIdle ==
    /\ tinfo = NoTensor
    /\ json_obj = NoJson
    /\ parsed_arg = NotCalled
    /\ parsed_tensor = NotCalled

MutIdle ==
    /\ ctx_mod = LoadJSON(NotBound)
    /\ json_mod_ = NotBound
    /\ trace = <<>>
    /\ rand_state = 1
    /\ applied = NotCalled

BaseIdle ==
    /\ EntryIdle
    /\ ArgsIdle
    /\ JsonIdle
    /\ MutIdle
    /\ CloneIdle
    /\ RoundIdle

InitEntry ==
    /\ mod \in Modules
    /\ found = NotCalled
    /\ entry_args = NotCalled
    /\ ArgsIdle
    /\ JsonIdle
    /\ MutIdle
    /\ CloneIdle
    /\ RoundIdle
    /\ RestIdle

CallFindEntryFunc ==
    /\ found' = FindEntryFunc(mod)
    /\ UNCHANGED <<mod, entry_args, argVars, jsonVars, mutVars, cloneVars, roundVars, restVars>>

CallFromEntryFunc ==
    /\ \E remove_preproc \in BOOLEAN :
          entry_args' = FromEntryFunc(mod, remove_preproc)
    /\ UNCHANGED <<mod, found, argVars, jsonVars, mutVars, cloneVars, roundVars, restVars>>

NextEntry == CallFindEntryFunc \/ CallFromEntryFunc

SpecEntry == InitEntry /\ [][NextEntry]_vars

(***************************************************************************)
(* SpecArgs: a PrimFunc is given; ArgInfo::FromPrimFunc is called on it.   *)
(***************************************************************************)
InitArgs ==
    /\ func \in PrimFuncs
    /\ args = NotCalled
    /\ EntryIdle
    /\ JsonIdle
    /\ MutIdle
    /\ CloneIdle
    /\ RoundIdle
    /\ RestIdle

CallFromPrimFunc ==
    /\ args' = FromPrimFunc(func)
    /\ UNCHANGED <<func, entryVars, jsonVars, mutVars, cloneVars, roundVars, restVars>>

NextArgs == CallFromPrimFunc

SpecArgs == InitArgs /\ [][NextArgs]_vars

(***************************************************************************)
(* SpecJSON: either a TensorInfo is given, AsJSON is taken of it and the   *)
(* result is parsed; or a JSON object is given and parsed.                 *)
(***************************************************************************)
InitJSON ==
    /\ \/ tinfo \in TensorInfos /\ json_obj = NoJson
       \/ tinfo = NoTensor /\ json_obj \in JsonInputs
    /\ parsed_arg = NotCalled
    /\ parsed_tensor = NotCalled
    /\ EntryIdle
    /\ ArgsIdle
    /\ MutIdle
    /\ CloneIdle
    /\ RoundIdle
    /\ RestIdle

CallAsJSON ==
    /\ tinfo # NoTensor
    /\ json_obj = NoJson
    /\ json_obj' = AsJSON(tinfo)
    /\ UNCHANGED <<tinfo, parsed_arg, parsed_tensor, entryVars, argVars, mutVars, cloneVars, roundVars, restVars>>

CallArgInfoFromJSON ==
    /\ json_obj # NoJson
    /\ parsed_arg' = ArgInfoFromJSON(json_obj)
    /\ UNCHANGED <<tinfo, json_obj, parsed_tensor, entryVars, argVars, mutVars, cloneVars, roundVars, restVars>>

CallTensorInfoFromJSON ==
    /\ json_obj # NoJson
    /\ parsed_tensor' = TensorInfoFromJSON(json_obj)
    /\ UNCHANGED <<tinfo, json_obj, parsed_arg, entryVars, argVars, mutVars, cloneVars, roundVars, restVars>>

NextJSON == CallAsJSON \/ CallArgInfoFromJSON \/ CallTensorInfoFromJSON

SpecJSON == InitJSON /\ [][NextJSON]_vars

(***************************************************************************)
(* SpecMutate: a MutateComputeLocation mutator is created, bound to the    *)
(* workload of a tune context, and applied to a trace.                     *)
(***************************************************************************)
InitMutate ==
    /\ ctx_mod \in Programs
    /\ json_mod_ = NotBound
    /\ trace \in Traces
    /\ rand_state = 1
    /\ applied = NotCalled
    /\ EntryIdle
    /\ ArgsIdle
    /\ JsonIdle
    /\ CloneIdle
    /\ RoundIdle
    /\ RestIdle

InitializeWithTuneContext ==
    /\ json_mod_' = SaveJSON(ctx_mod)
    /\ UNCHANGED <<ctx_mod, trace, rand_state, applied, entryVars, argVars, jsonVars, cloneVars, roundVars, restVars>>

CallApply ==
    /\ json_mod_ # NotBound
    /\ LET r == Apply(json_mod_, trace, rand_state)
       IN  /\ applied' = r.out
           /\ rand_state' = r.rand_state
    /\ UNCHANGED <<ctx_mod, json_mod_, trace, entryVars, argVars, jsonVars, cloneVars, roundVars, restVars>>

NextMutate == InitializeWithTuneContext \/ CallApply

SpecMutate == InitMutate /\ [][NextMutate]_vars

(***************************************************************************)
(* SpecClone: a mutator is initialized and cloned; two threads apply the   *)
(* two mutators, each with its own random state.                           *)
(***************************************************************************)
InitClone ==
    /\ mutators = [m \in Mutators |-> IF m = 1 THEN NewMutator ELSE NoMutator]
    /\ \E t1 \in CloneTraces, t2 \in CloneTraces, s1 \in CloneSeeds, s2 \in CloneSeeds :
          callers = [m \in Mutators |-> IF m = 1 THEN IdleCaller(t1, s1)
                                        ELSE IdleCaller(t2, s2)]
    /\ ghost = NoGhost
    /\ EntryIdle
    /\ ArgsIdle
    /\ JsonIdle
    /\ MutIdle
    /\ RoundIdle
    /\ RestIdle

otherVars == <<entryVars, argVars, jsonVars, mutVars, roundVars, restVars>>

\* mutator->InitializeWithTuneContext(context), by the thread of mutator m
\* between two of its Apply calls.
InitializeMutator(m, context_mod) ==
    /\ mutators[m].made
    /\ callers[m].pc = "idle"
    /\ mutators' = InitializeNode(mutators, m, context_mod)
    /\ ghost' = [ghost EXCEPT !.expected[m] = SaveJSON(context_mod)]
    /\ UNCHANGED <<callers, otherVars>>

\* mutator->Clone() on mutator 1, once it is initialized.
CallClone ==
    /\ mutators[1].json_mod_ # NotBound
    /\ ~mutators[2].made
    /\ mutators' = CloneNode(mutators)
    /\ ghost' = [ghost EXCEPT !.expected[2] = ghost.expected[1]]
    /\ UNCHANGED <<callers, otherVars>>

\* Thread m enters Apply on mutator m.
ApplyTraced(m) ==
    /\ mutators[m].json_mod_ # NotBound
    /\ callers[m].pc = "idle"
    /\ ghost.calls[m] < MaxCalls
    /\ callers' = StepTraced(callers, m, mutators[m].json_mod_)
    /\ ghost' = [ghost EXCEPT !.json0[m] = ghost.expected[m],
                              !.trace0[m] = callers[m].trace,
                              !.rs0[m] = callers[m].rand_state,
                              !.calls[m] = @ + 1,
                              !.previous[m] = callers[m].out.kind,
                              !.overlapped = @ \/ \E k \in Mutators : callers[k].pc # "idle"]
    /\ UNCHANGED <<mutators, otherVars>>

ApplyReplay(m) ==
    /\ callers[m].pc = "traced"
    /\ callers' = StepReplay(callers, m)
    /\ UNCHANGED <<mutators, ghost, otherVars>>

ApplyPickInst(m) ==
    /\ callers[m].pc = "replayed"
    /\ callers' = StepPickInst(callers, m)
    /\ UNCHANGED <<mutators, ghost, otherVars>>

ApplyPickLoc(m) ==
    /\ callers[m].pc = "picked"
    /\ callers' = StepPickLoc(callers, m)
    /\ UNCHANGED <<mutators, ghost, otherVars>>

NextClone ==
    \/ \E m \in Mutators, context_mod \in ClonePrograms : InitializeMutator(m, context_mod)
    \/ CallClone
    \/ \E m \in Mutators : ApplyTraced(m)
    \/ \E m \in Mutators : ApplyReplay(m)
    \/ \E m \in Mutators : ApplyPickInst(m)
    \/ \E m \in Mutators : ApplyPickLoc(m)

SpecClone == InitClone /\ [][NextClone]_vars

(***************************************************************************)
(* SpecRound: one Build, Run, Callback round over a batch of candidates,   *)
(* with RemoveBuildArtifact as the callback.                               *)
(***************************************************************************)
InitRound ==
    /\ \E n \in 0..MaxResults : measure_candidates = [i \in 1..n |-> i]
    /\ builder_results = <<>>
    /\ runner_results = <<>>
    /\ callback = NoCallback
    /\ round_pc = "proposed"
    /\ EntryIdle
    /\ ArgsIdle
    /\ JsonIdle
    /\ MutIdle
    /\ CloneIdle
    /\ RestIdle

\* The builder returns one result per candidate.
Build ==
    /\ round_pc = "proposed"
    /\ builder_results' \in [1..Len(measure_candidates) -> BuilderResults]
    /\ round_pc' = "built"
    /\ UNCHANGED <<measure_candidates, runner_results, callback,
                   entryVars, argVars, jsonVars, mutVars, cloneVars, restVars>>

\* The runner returns one result per candidate.
Run ==
    /\ round_pc = "built"
    /\ \E outcomes \in [1..Len(builder_results) -> {"latency", "error"}] :
          runner_results' =
              [i \in 1..Len(builder_results) |-> RunOne(builder_results[i], outcomes[i])]
    /\ round_pc' = "ran"
    /\ UNCHANGED <<measure_candidates, builder_results, callback,
                   entryVars, argVars, jsonVars, mutVars, cloneVars, restVars>>

\* The callback of the round: RemoveBuildArtifactNode::Apply.
CallRemoveBuildArtifact ==
    /\ round_pc = "ran"
    /\ \E fails \in SUBSET (1..Len(builder_results)) :
          callback' = RemoveBuildArtifact(builder_results, fails)
    /\ round_pc' = "called"
    /\ UNCHANGED <<measure_candidates, builder_results, runner_results,
                   entryVars, argVars, jsonVars, mutVars, cloneVars, restVars>>

NextRound == Build \/ Run \/ CallRemoveBuildArtifact

SpecRound == InitRound /\ [][NextRound]_vars

(***************************************************************************)
(* SpecProvider: the decision provider of FindCandidates is called for one *)
(* instruction of a trace.                                                 *)
(***************************************************************************)
InitProvider ==
    /\ \E p \in Programs :
       \E st \in ScheduleStates(p), inst \in Instructions :
          prov_in = [p |-> p, st |-> st, inst |-> inst]
    /\ prov_out = NoProviderOutput
    /\ BaseIdle
    /\ SchedIdle
    /\ TargetIdle
    /\ SinfoIdle

CallDecisionProvider ==
    /\ prov_out' =
          [called |-> TRUE,
           candidates |-> DecisionProvider(prov_in.p, prov_in.st, <<prov_in.inst>>, 1, <<>>),
           decision |-> ProvidedDecision(prov_in.inst, prov_in.inst.decision)]
    /\ UNCHANGED <<prov_in, baseVars, sinfoVars, tgtVars, schedVars>>

NextProvider == CallDecisionProvider

SpecProvider == InitProvider /\ [][NextProvider]_vars

(***************************************************************************)
(* SpecStructInfo: UpdateStructInfo is called several times on one         *)
(* expression, which may have struct info from its construction.           *)
(***************************************************************************)
InitStructInfo ==
    /\ \E s \in {<<>>} \cup {<<v>> : v \in StructInfos} : expr = [struct_info_ |-> s]
    /\ sinfo_log = <<>>
    /\ BaseIdle
    /\ SchedIdle
    /\ TargetIdle
    /\ ProvIdle

CallUpdateStructInfo ==
    /\ Len(sinfo_log) < MaxUpdates
    /\ \E struct_info \in StructInfos :
          LET r == UpdateStructInfo(expr, struct_info)
          IN  /\ expr' = r.expr
              /\ sinfo_log' = Append(sinfo_log, [given |-> struct_info,
                                                 before |-> expr.struct_info_,
                                                 out |-> r.out])
    /\ UNCHANGED <<baseVars, provVars, tgtVars, schedVars>>

NextStructInfo == CallUpdateStructInfo

SpecStructInfo == InitStructInfo /\ [][NextStructInfo]_vars

(***************************************************************************)
(* SpecTarget: a target's attribute map is given; CheckOrSetAttr and the   *)
(* target parsers are called on it. A parser gets the map by value: the    *)
(* map is replaced by what the parser returns, and kept when it throws.    *)
(***************************************************************************)
InitTarget ==
    /\ tgt_attrs \in Targets
    /\ tgt_last = NoParse
    /\ BaseIdle
    /\ SchedIdle
    /\ ProvIdle
    /\ SinfoIdle

Parsed(op, name, value, r) ==
    /\ tgt_attrs' = r.target
    /\ tgt_last' = [op |-> op, name |-> name, value |-> value, before |-> tgt_attrs,
                    ok |-> r.ok, n |-> tgt_last.n + 1]
    /\ UNCHANGED <<baseVars, provVars, sinfoVars, schedVars>>

CallCheckOrSetAttr ==
    /\ tgt_last.n < MaxParses
    /\ \E name \in {"mtriple", "mcpu"}, value \in {Str_nvptx_triple, Str_rocm_triple} :
          Parsed("check", name, value, CheckOrSetAttr(tgt_attrs, name, value))

ParseCUDA ==
    /\ tgt_last.n < MaxParses
    /\ \E version \in ComputeVersions :
          Parsed("cuda", "arch", <<>>, UpdateCUDAAttrs(tgt_attrs, version))

ParseNVPTX ==
    /\ tgt_last.n < MaxParses
    /\ \E version \in ComputeVersions :
          Parsed("nvptx", "mcpu", <<>>, UpdateNVPTXAttrs(tgt_attrs, version))

ParseROCm ==
    /\ tgt_last.n < MaxParses
    /\ \E arch_callback \in RocmArchCallbacks, api_version \in RocmVersions :
          Parsed("rocm", "mcpu", <<>>, UpdateROCmAttrs(tgt_attrs, arch_callback, api_version))

NextTarget == CallCheckOrSetAttr \/ ParseCUDA \/ ParseNVPTX \/ ParseROCm

SpecTarget == InitTarget /\ [][NextTarget]_vars

(***************************************************************************)
(* SpecSched: the tasks are created at scheduler start; a tick selects a   *)
(* RUNNING task, asks its search strategy for candidates, runs the Build,  *)
(* Run, Callback round and feeds the results back. SpecSchedFair adds that *)
(* the scheduler keeps taking steps while it can.                          *)
(***************************************************************************)
InitSched ==
    /\ \E budgets \in [Tasks -> 0..MaxBudget] : tasks = [t \in Tasks |-> NewTask(budgets[t])]
    /\ sched = [current |-> 0, terminated |-> FALSE]
    /\ BaseIdle
    /\ ProvIdle
    /\ SinfoIdle
    /\ TargetIdle

schedFrame == <<baseVars, provVars, sinfoVars, tgtVars>>

StartTask(t) ==
    /\ ~sched.terminated
    /\ tasks[t].state = "PENDING"
    /\ tasks' = [tasks EXCEPT ![t].state = "RUNNING"]
    /\ UNCHANGED <<sched, schedFrame>>

\* The tick: task t is selected and its search strategy is asked for up to
\* MaxBatch candidates; it gives none when it has no further candidates or
\* the trial budget is consumed.
RequestCandidates(t) ==
    /\ ~sched.terminated
    /\ sched.current = 0
    /\ t \in Selectable(tasks)
    /\ \E n \in 0..Min(MaxBatch, tasks[t].budget) :
          IF n = 0
          THEN /\ tasks' = [tasks EXCEPT ![t].state = "EXHAUSTED", ![t].reply = 0]
               /\ UNCHANGED sched
          ELSE /\ tasks' = [tasks EXCEPT ![t].reply = n, ![t].batch = n,
                                         ![t].requested = TRUE, ![t].built = FALSE,
                                         ![t].ran = FALSE, ![t].callbacks = 0,
                                         ![t].failed = 0, ![t].round = @ + 1]
               /\ sched' = [sched EXCEPT !.current = t]
    /\ UNCHANGED schedFrame

\* The builder returns; some candidates may have failed to build.
BuildBatch(t) ==
    /\ sched.current = t
    /\ tasks[t].requested /\ ~tasks[t].built /\ tasks[t].callbacks = 0
    /\ \E failures \in 0..tasks[t].batch :
          tasks' = [tasks EXCEPT ![t].built = TRUE, ![t].failed = failures]
    /\ UNCHANGED <<sched, schedFrame>>

\* The runner returns; some candidates may have failed to run.
RunBatch(t) ==
    /\ sched.current = t
    /\ tasks[t].built /\ ~tasks[t].ran /\ tasks[t].callbacks = 0
    /\ \E failures \in tasks[t].failed..tasks[t].batch :
          tasks' = [tasks EXCEPT ![t].ran = TRUE, ![t].failed = failures]
    /\ UNCHANGED <<sched, schedFrame>>

InvokeCallbacks(t) ==
    /\ sched.current = t
    /\ CallbackReady(tasks[t])
    /\ tasks' = [tasks EXCEPT ![t].callbacks = @ + 1,
                               ![t].called_round = tasks[t].round]
    /\ UNCHANGED <<sched, schedFrame>>

\* The results are fed back to the search strategy; the trials are counted
\* against the budget, failed or not.
Feedback(t) ==
    /\ sched.current = t
    /\ tasks[t].callbacks >= 1
    /\ \E early_stop \in BOOLEAN :
          tasks' = [tasks EXCEPT
                       ![t].budget = @ - tasks[t].batch,
                       ![t].early_stop = early_stop,
                       ![t].requested = FALSE,
                       ![t].state = StateAfterRound(early_stop,
                                                    tasks[t].budget - tasks[t].batch)]
    /\ sched' = [sched EXCEPT !.current = 0]
    /\ UNCHANGED schedFrame

Terminate ==
    /\ ~sched.terminated
    /\ sched.current = 0
    /\ AllRetired(tasks)
    /\ sched' = [sched EXCEPT !.terminated = TRUE]
    /\ UNCHANGED <<tasks, schedFrame>>

NextSched ==
    \/ \E t \in Tasks : StartTask(t)
    \/ \E t \in Tasks : RequestCandidates(t)
    \/ \E t \in Tasks : BuildBatch(t)
    \/ \E t \in Tasks : RunBatch(t)
    \/ \E t \in Tasks : InvokeCallbacks(t)
    \/ \E t \in Tasks : Feedback(t)
    \/ Terminate

SpecSched == InitSched /\ [][NextSched]_vars

SpecSchedFair == SpecSched /\ WF_vars(NextSched)

(***************************************************************************)
(* The entry function of a module (SpecEntry).                             *)
(***************************************************************************)
PrimIdx == {i \in 1..Len(mod) : mod[i].prim}
FlaggedIdx == {i \in PrimIdx : mod[i].entry}
MainIdx == {i \in PrimIdx : mod[i].name = "main"}

FoundAmong(S) == found.kind = "ok" /\ \E i \in S : found.value = mod[i]

\* C1: FindEntryFunc selects by strict priority, whatever the iteration
\* order: a flagged PrimFunc if one exists; otherwise the PrimFunc named
\* "main" if one exists; otherwise the PrimFunc of a module with exactly one.
C1_EntryPriority ==
    found.kind # "none" =>
        /\ FlaggedIdx # {} => FoundAmong(FlaggedIdx)
        /\ (FlaggedIdx = {} /\ MainIdx # {}) => FoundAmong(MainIdx)
        /\ (FlaggedIdx = {} /\ MainIdx = {} /\ Cardinality(PrimIdx) = 1)
              => FoundAmong(PrimIdx)

\* A flagged PrimFunc was returned although an unflagged PrimFunc named
\* "main" comes before it in the iteration.
C1_Witness ==
    /\ found.kind = "ok"
    /\ \E i, j \in PrimIdx :
          /\ i < j
          /\ mod[i].name = "main" /\ ~mod[i].entry
          /\ mod[j].entry
          /\ found.value = mod[j]

\* C2 as stated: every module with two PrimFuncs, none flagged as entry,
\* makes FindEntryFunc fail with an error that includes the module.
C2_TwoUnflaggedIsFatal ==
    (found.kind # "none" /\ Cardinality(PrimIdx) = 2 /\ FlaggedIdx = {})
        => (found.kind = "fatal" /\ found.payload = mod)

\* C2 amended: every module with two PrimFuncs, none flagged as entry and
\* none named "main", makes FindEntryFunc fail with an error that includes
\* the module; no function is returned.
C2_TwoUnflaggedNoMainIsFatal ==
    (found.kind # "none" /\ Cardinality(PrimIdx) = 2 /\ FlaggedIdx = {}
        /\ MainIdx = {})
        => (found.kind = "fatal" /\ found.payload = mod /\ found.value = <<>>)

C2_Witness ==
    /\ found.kind = "fatal"
    /\ Len(mod) = 2
    /\ Cardinality(PrimIdx) = 2 /\ FlaggedIdx = {} /\ MainIdx = {}

\* C3: on a module without any PrimFunc FindEntryFunc, and with it
\* ArgInfo::FromEntryFunc, fails with an error that includes the module; no
\* function (null or other) is returned.
C3_NoPrimFuncIsFatal ==
    PrimIdx = {} =>
        /\ found.kind # "none"
              => (found.kind = "fatal" /\ found.payload = mod /\ found.value = <<>>)
        /\ entry_args.kind # "none"
              => (entry_args.kind = "fatal" /\ entry_args.payload = mod)

\* Both calls failed on a module whose only function is not a PrimFunc,
\* although it is named "main" and flagged as entry.
C3_Witness ==
    /\ Len(mod) = 1 /\ ~mod[1].prim /\ mod[1].name = "main" /\ mod[1].entry
    /\ found.kind = "fatal"
    /\ entry_args.kind = "fatal"

(***************************************************************************)
(* Argument descriptors of a PrimFunc (SpecArgs).                          *)
(***************************************************************************)
UnboundIdx == {i \in 1..Len(func) : func[i].buffer = <<>>}

\* C4: when every parameter is bound to a buffer, FromPrimFunc returns one
\* TensorInfo per parameter, in parameter order, with the dtype and shape of
\* the buffer bound to that parameter.
C4_OneTensorInfoPerParam ==
    (args.kind # "none" /\ UnboundIdx = {}) =>
        /\ args.kind = "ok"
        /\ Len(args.value) = Len(func)
        /\ \A i \in 1..Len(func) :
              /\ args.value[i].dtype = func[i].buffer[1].dtype
              /\ args.value[i].shape = func[i].buffer[1].shape

\* Descriptors were returned for three parameters bound to three different
\* buffers.
C4_Witness ==
    /\ args.kind = "ok"
    /\ Len(func) = 3
    /\ func[1].buffer # func[2].buffer
    /\ func[2].buffer # func[3].buffer
    /\ func[1].buffer # func[3].buffer

\* C5: when some parameter is not bound to a buffer, FromPrimFunc fails on
\* the first such parameter, wherever it stands, and returns no descriptor.
C5_UnboundParamIsFatal ==
    (args.kind # "none" /\ UnboundIdx # {}) =>
        /\ args.kind = "fatal"
        /\ args.value = <<>>
        /\ \E i \in UnboundIdx :
              /\ \A j \in UnboundIdx : i <= j
              /\ args.payload = func[i].var

\* The call failed on an unbound parameter standing between two bound ones.
C5_Witness ==
    /\ args.kind = "fatal"
    /\ Len(func) = 3
    /\ UnboundIdx = {2}

(***************************************************************************)
(* The JSON form of a TensorInfo (SpecJSON).                               *)
(***************************************************************************)
SameTensorInfo(r, x) ==
    /\ r.kind = "ok"
    /\ r.value.dtype = x.dtype
    /\ Len(r.value.shape) = Len(x.shape)
    /\ \A i \in 1..Len(x.shape) : r.value.shape[i] = x.shape[i]

\* C6: parsing the AsJSON form of a TensorInfo x, with ArgInfo::FromJSON or
\* with TensorInfo::FromJSON, gives a TensorInfo of the same dtype and the
\* same shape as x.
C6_RoundTrip ==
    tinfo # NoTensor =>
        /\ parsed_arg.kind # "none" => SameTensorInfo(parsed_arg, tinfo)
        /\ parsed_tensor.kind # "none" => SameTensorInfo(parsed_tensor, tinfo)

\* Both parsers gave back a bool tensor of rank 4 with unequal extents.
C6_Witness ==
    /\ tinfo # NoTensor
    /\ tinfo.dtype = [code |-> "uint", bits |-> 1, lanes |-> 1]
    /\ tinfo.shape = <<1, 224, 224, 3>>
    /\ parsed_arg.kind = "ok"
    /\ parsed_tensor.kind = "ok"

\* C7: AsJSON gives an array of exactly 3 elements: the string "TENSOR", the
\* dtype as a string ("float32" for float32) and the array of the extents
\* of the shape, in order.
C7_AsJSONLayout ==
    (tinfo # NoTensor /\ json_obj # NoJson) =>
        /\ json_obj.t = "arr"
        /\ Len(json_obj.v) = 3
        /\ json_obj.v[1] = JStr(Str_TENSOR)
        /\ json_obj.v[2].t = "str"
        /\ tinfo.dtype = Float32 => json_obj.v[2].s = Str_float32
        /\ json_obj.v[3].t = "arr"
        /\ Len(json_obj.v[3].v) = Len(tinfo.shape)
        /\ \A i \in 1..Len(tinfo.shape) : json_obj.v[3].v[i] = JInt(tinfo.shape[i])

\* float32 with shape [1,224,224,3] gave ["TENSOR", "float32", [1,224,224,3]].
C7_Witness ==
    /\ tinfo = TensorInfo(Float32, <<1, 224, 224, 3>>)
    /\ json_obj = JArr(<<JStr(Str_TENSOR), JStr(Str_float32),
                         JArr(<<JInt(1), JInt(224), JInt(224), JInt(3)>>)>>)

\* The inputs C8 is about: not an array, an empty array, a first element
\* that is not a string, or a tag other than "TENSOR".
NoTensorTag(json) ==
    \/ json.t # "arr"
    \/ Len(json.v) = 0
    \/ json.v[1].t # "str"
    \/ json.v[1].s # Str_TENSOR

\* C8: on such an input ArgInfo::FromJSON fails with the parse error that
\* holds the JSON object, and returns no ArgInfo.
C8_ArgInfoRejectsBadTag ==
    (parsed_arg.kind # "none" /\ NoTensorTag(json_obj)) =>
        /\ parsed_arg.kind = "fatal"
        /\ parsed_arg.what = "ValueError: Unable to parse the JSON object: "
        /\ parsed_arg.payload = json_obj
        /\ parsed_arg.value = <<>>

\* An array that differs from a tensor descriptor in its tag only was rejected.
C8_Witness ==
    /\ json_obj = JArr(<<JStr(Str_OTHER), JStr(Str_float32),
                         JArr(<<JInt(1), JInt(224)>>)>>)
    /\ parsed_arg.kind = "fatal"

\* An array of exactly 3 elements whose first element is the tag "TENSOR".
TaggedTriple(json) ==
    /\ json.t = "arr"
    /\ Len(json.v) = 3
    /\ json.v[1] = JStr(Str_TENSOR)

RejectedWithPayload(r, json) == r.kind = "fatal" /\ r.payload = json

\* C9: ArgInfo::FromJSON and TensorInfo::FromJSON each fail with a parse
\* error holding the input unless the input is an array of exactly 3
\* elements whose first element is the tag "TENSOR".
C9_BothValidateTagAndArity ==
    (json_obj # NoJson /\ ~TaggedTriple(json_obj)) =>
        /\ parsed_arg.kind # "none" => RejectedWithPayload(parsed_arg, json_obj)
        /\ parsed_tensor.kind # "none" => RejectedWithPayload(parsed_tensor, json_obj)

(***************************************************************************)
(* The compute-location mutator (SpecMutate).                              *)
(***************************************************************************)
BoundProgram == LoadJSON(json_mod_)
Replayed == RemovePostproc(trace)

\* The schedule state after the first k instructions of the replayed trace,
\* or the ScheduleError one of them raised.
RECURSIVE ReplayPrefix(_)
ReplayPrefix(k) ==
    IF k = 0 THEN [ok |-> TRUE, st |-> InitialState]
    ELSE LET prev == ReplayPrefix(k - 1)
         IN  IF prev.ok
             THEN ApplyInstruction(BoundProgram, prev.st, Replayed[k], Replayed[k].decision)
             ELSE prev

SampleInsts == {i \in 1..Len(Replayed) : Replayed[i].kind = "SampleComputeLocation"}

\* The legal locations of the block of instruction i, as recomputed when the
\* replay reaches it, and those of them that differ from its decision.
LegalAt(i) ==
    LET locs == CollectComputeLocation(BoundProgram, ReplayPrefix(i - 1).st,
                                       Replayed[i].block)
    IN  {locs[k] : k \in 1..Len(locs)}

AlternativesAt(i) == LegalAt(i) \ {Replayed[i].decision}

HasAlternative ==
    \E i \in SampleInsts : ReplayPrefix(i - 1).ok /\ AlternativesAt(i) # {}

\* C10: Apply returns "no mutation" exactly when no SampleComputeLocation
\* instruction of the replayed trace has a legal location other than its
\* decision; so it does for a trace without such an instruction and for a
\* trace with one whose decision is its only legal location.
C10_NoMutationIffNoAlternative ==
    applied.kind # "none" =>
        /\ applied.kind = "nullopt" <=> ~HasAlternative
        /\ SampleInsts = {} => applied.kind = "nullopt"
        /\ (\E i \in SampleInsts : SampleInsts = {i} /\ LegalAt(i) = {Replayed[i].decision})
              => applied.kind = "nullopt"

\* "No mutation" was returned for a trace whose only SampleComputeLocation
\* instruction has its decision as only legal location.
C10_Witness ==
    /\ applied.kind = "nullopt"
    /\ \E i \in SampleInsts : SampleInsts = {i} /\ LegalAt(i) = {Replayed[i].decision}

\* C11: a trace returned by Apply is the input trace without its
\* postprocessing part, with the decision of exactly one
\* SampleComputeLocation instruction replaced by a location that is legal
\* for that instruction when the replay reaches it and that differs from
\* its old decision; every other instruction is as in the input trace.
C11_OneDecisionReplaced ==
    applied.kind = "ok" =>
        /\ Len(applied.value) = Len(Replayed)
        /\ \E i \in SampleInsts :
              /\ ReplayPrefix(i - 1).ok
              /\ applied.value[i].kind = Replayed[i].kind
              /\ applied.value[i].block = Replayed[i].block
              /\ applied.value[i].decision \in LegalAt(i)
              /\ applied.value[i].decision # Replayed[i].decision
              /\ \A k \in 1..Len(Replayed) : k # i => applied.value[k] = Replayed[k]

\* A trace was returned for an input trace that has a postprocessing part:
\* the part is gone and the SampleComputeLocation instruction is mutated.
C11_Witness ==
    /\ applied.kind = "ok"
    /\ Len(trace) > Len(Replayed)
    /\ 1 \in SampleInsts
    /\ applied.value[1].decision # trace[1].decision

\* The replay of a trace t on the bound program: the schedule state after
\* its first k instructions, or the ScheduleError one of them raised.
RECURSIVE ReplayOf(_, _)
ReplayOf(t, k) ==
    IF k = 0 THEN [ok |-> TRUE, st |-> InitialState]
    ELSE LET prev == ReplayOf(t, k - 1)
         IN  IF prev.ok
             THEN ApplyInstruction(BoundProgram, prev.st, t[k], t[k].decision)
             ELSE prev

\* C12: the replay of a trace returned by Apply on the bound program raises
\* no ScheduleError.
C12_ReturnedTraceReplays ==
    applied.kind = "ok" => ReplayOf(applied.value, Len(applied.value)).ok

(***************************************************************************)
(* Clones and threads (SpecClone).                                         *)
(***************************************************************************)
\* Thread m has returned from an Apply call.
Done(m) == callers[m].pc = "idle" /\ ghost.calls[m] >= 1

\* The Apply call thread m started, run alone.
Alone(m) == Apply(ghost.json0[m], ghost.trace0[m], ghost.rs0[m])

\* C14: the clone is bound to the serialized program the original had when
\* it was cloned, and from then on the binding of a mutator changes only by
\* its own InitializeWithTuneContext; every Apply call replays on the
\* program its own mutator is bound to and returns what that binding gives.
C14_CloneIndependent ==
    \A m \in Mutators :
        /\ mutators[m].made => mutators[m].json_mod_ = ghost.expected[m]
        /\ callers[m].pc # "idle" => callers[m].sch.p = LoadJSON(ghost.expected[m])
        /\ Done(m) => callers[m].out = Alone(m).out

\* Both mutators exist, are bound to different programs (one was initialized
\* again after the Clone), and both have been applied.
C14_Witness ==
    /\ mutators[2].made
    /\ mutators[1].json_mod_ # mutators[2].json_mod_
    /\ ghost.json0[1] # ghost.json0[2]
    /\ Done(1)
    /\ Done(2)
    /\ callers[1].out.kind # callers[2].out.kind

\* C18: whatever the interleaving of the Apply calls of the two threads,
\* each call returns the outcome and leaves its random state as it does
\* when it runs alone.
C18_AsIfAlone ==
    \A m \in Mutators :
        Done(m) => /\ callers[m].out = Alone(m).out
                   /\ callers[m].rand_state = Alone(m).rand_state

\* Two Apply calls overlapped in time and both returned a trace.
C18_Witness ==
    /\ ghost.overlapped
    /\ \A m \in Mutators : /\ Done(m)
                           /\ ghost.calls[m] = 1
                           /\ callers[m].out.kind = "ok"

\* C19: every Apply call replays on a schedule state newly made from the
\* program the mutator was bound to by InitializeWithTuneContext; during
\* and after the call the binding and the input trace are what they were
\* when it started, and a call made after earlier calls returns what the
\* first call on a newly initialized mutator returns.
C19_FreshReplay ==
    \A m \in Mutators :
        /\ callers[m].pc = "traced" =>
              callers[m].sch = [live |-> TRUE,
                                p |-> LoadJSON(mutators[m].json_mod_),
                                st |-> InitialState]
        /\ callers[m].pc # "idle" => mutators[m].json_mod_ = ghost.json0[m]
        /\ ghost.calls[m] >= 1 => callers[m].trace = ghost.trace0[m]
        /\ (Done(m) /\ ghost.calls[m] >= 2) =>
              /\ callers[m].out = Alone(m).out
              /\ callers[m].rand_state = Alone(m).rand_state

\* A second Apply call returned a trace after a first one had returned one.
C19_Witness ==
    \E m \in Mutators : /\ Done(m)
                        /\ ghost.calls[m] = 2
                        /\ ghost.previous[m] = "ok"
                        /\ callers[m].out.kind = "ok"

\* The two threads started their last Apply calls with the same bound
\* program, the same trace and equal random states.
SameStart ==
    /\ ghost.json0[1] = ghost.json0[2]
    /\ ghost.trace0[1] = ghost.trace0[2]
    /\ ghost.rs0[1] = ghost.rs0[2]

\* C13: two Apply calls started with the same program, the same trace and
\* equal random states return the same outcome and leave equal random
\* states, whatever mutator object, thread and earlier calls they have.
C13_Deterministic ==
    (Done(1) /\ Done(2) /\ SameStart) =>
        /\ callers[1].out = callers[2].out
        /\ callers[1].rand_state = callers[2].rand_state

\* Two calls with the same start returned a trace, one of them after an
\* earlier call that returned a trace too, the other after one that did not.
C13_Witness ==
    /\ Done(1)
    /\ Done(2)
    /\ SameStart
    /\ callers[1].out.kind = "ok"
    /\ ghost.previous[1] # ghost.previous[2]

(***************************************************************************)
(* The measurement round and its cleanup callback (SpecRound).             *)
(***************************************************************************)
\* The artifact paths of the results from position i on, in array order.
RECURSIVE PathsFrom(_)
PathsFrom(i) ==
    IF i > Len(builder_results) THEN <<>>
    ELSE builder_results[i].artifact_path \o PathsFrom(i + 1)

\* C15: after the callback, the removal calls are the defined artifact
\* paths of the builder results, one call per result that has one and none
\* for a result that carries an error.
C15_OneRemovalPerArtifact ==
    round_pc = "called" => callback.calls = PathsFrom(1)

\* C16: the callback visits every element of builder_results and issues
\* the removal calls in array order.
C16_EveryElementVisited ==
    round_pc = "called" =>
        /\ callback.visited = Len(builder_results)
        /\ \E k \in 0..Len(callback.calls) :
              callback.calls = SubSeq(PathsFrom(1), 1, k)

\* C17: a removal call that fails does not end the callback: the removal of
\* every later artifact path is still attempted and the callback returns.
C17_RemovalIsBestEffort ==
    round_pc = "called" =>
        /\ callback.status = "returned"
        /\ Len(callback.calls) = Len(PathsFrom(1))

\* C20: the three arrays of a round have the same length, and a runner
\* result that comes from a run was measured on the artifact of the builder
\* result at the same position; a candidate whose build failed is not run.
C20_Alignment ==
    /\ round_pc \in {"built", "ran", "called"} =>
          Len(builder_results) = Len(measure_candidates)
    /\ round_pc \in {"ran", "called"} =>
          /\ Len(runner_results) = Len(measure_candidates)
          /\ \A i \in 1..Len(runner_results) :
                /\ runner_results[i].artifact = builder_results[i].artifact_path
                /\ builder_results[i].artifact_path = <<>> =>
                      /\ runner_results[i].latency = <<>>
                      /\ runner_results[i].error # <<>>

\* A round of several candidates was run in which one build failed and a
\* later one gave an artifact that was measured.
C20_Witness ==
    /\ round_pc = "ran"
    /\ \E i \in 1..Len(builder_results), j \in 1..Len(builder_results) :
          /\ i < j
          /\ builder_results[i].artifact_path = <<>>
          /\ runner_results[j].latency # <<>>

(***************************************************************************)
(* Several flagged PrimFuncs (SpecEntry).                                  *)
(***************************************************************************)
\* C24: when at least one PrimFunc is flagged as entry, FindEntryFunc raises
\* no error and returns the flagged PrimFunc that comes first in the
\* iteration order of the module's functions, whatever the others are.
C24_FirstFlaggedWins ==
    (found.kind # "none" /\ FlaggedIdx # {}) =>
        \E i \in FlaggedIdx :
            /\ \A j \in FlaggedIdx : i <= j
            /\ found = Returned(mod[i])

\* A module with two different flagged PrimFuncs: the first was returned.
C24_Witness ==
    /\ found.kind = "ok"
    /\ \E i \in FlaggedIdx, j \in FlaggedIdx :
          /\ i < j
          /\ mod[i] # mod[j]
          /\ found.value = mod[i]

(***************************************************************************)
(* The decision provider (SpecProvider).                                   *)
(***************************************************************************)
\* The locations that are legal for the instruction shown to the provider.
ProvLegal == CollectComputeLocation(prov_in.p, prov_in.st, prov_in.inst.block)

ProvOld == prov_in.inst.decision

ProvOldIsLegal == \E k \in 1..Len(ProvLegal) : ProvLegal[k] = ProvOld

\* C25: for a SampleComputeLocation instruction whose recorded decision is
\* not among the legal locations, the provider records all of them; when it
\* is among them, it records them without that one entry (and records
\* nothing when no other is left); the recorded alternatives never contain
\* the old decision, and the provider returns the old decision.
C25_OldDecisionRemoved ==
    (prov_out.called /\ prov_in.inst.kind = "SampleComputeLocation") =>
        /\ prov_out.decision = ProvOld
        /\ ~ProvOldIsLegal =>
              prov_out.candidates = <<[inst |-> 1, locs |-> ProvLegal]>>
        /\ ProvOldIsLegal =>
              LET rest == SelectSeq(ProvLegal, LAMBDA l : l # ProvOld)
              IN  /\ Len(rest) = Len(ProvLegal) - 1
                  /\ prov_out.candidates =
                        IF rest = <<>> THEN <<>> ELSE <<[inst |-> 1, locs |-> rest]>>
        /\ \A c \in 1..Len(prov_out.candidates) :
              \A k \in 1..Len(prov_out.candidates[c].locs) :
                  prov_out.candidates[c].locs[k] # ProvOld

\* The provider saw an instruction whose recorded decision is not legal any
\* more, with several legal locations.
C25_Witness ==
    /\ prov_out.called
    /\ prov_in.inst.kind = "SampleComputeLocation"
    /\ ~ProvOldIsLegal
    /\ Len(ProvLegal) >= 2
    /\ prov_out.candidates # <<>>

(***************************************************************************)
(* The random state of an Apply call (SpecClone).                          *)
(***************************************************************************)
\* The random state after k draws from state s.
RECURSIVE Advanced(_, _)
Advanced(s, k) == IF k = 0 THEN s ELSE RandNext(Advanced(s, k - 1))

InRange(x, n) == 0 <= x /\ x < n

\* C26: a call that returns no trace has advanced the caller's random state
\* by the one seed fork; a call that returns a trace has advanced it by
\* two more draws, the first giving the index of the instruction among the
\* candidates and the second the index of the location among the
\* alternatives of that instruction, both within bounds.
C26_RandomStateAdvance ==
    \A m \in Mutators :
        LET c == callers[m]
            rs0 == ghost.rs0[m]
            n == Len(c.candidates.value)
            first == SampleInt(Advanced(rs0, 1), 0, n)
            second == SampleInt(Advanced(rs0, 2), 0, Len(c.candidate.locs))
        IN  /\ c.pc \in {"traced", "replayed"} => c.rand_state = Advanced(rs0, 1)
            /\ (Done(m) /\ c.out.kind # "ok") =>
                  /\ c.rand_state = Advanced(rs0, 1)
                  /\ c.rand_state # rs0
            /\ (c.pc = "picked" \/ (Done(m) /\ c.out.kind = "ok")) =>
                  /\ n > 0
                  /\ InRange(first.value, n)
                  /\ c.candidate = c.candidates.value[first.value + 1]
            /\ c.pc = "picked" => c.rand_state = Advanced(rs0, 2)
            /\ (Done(m) /\ c.out.kind = "ok") =>
                  /\ c.rand_state = Advanced(rs0, 3)
                  /\ c.rand_state # rs0
                  /\ InRange(second.value, Len(c.candidate.locs))
                  /\ c.out.value[c.candidate.inst].decision
                        = c.candidate.locs[second.value + 1]

\* One thread returned "no mutation" and the other a trace chosen among
\* several candidates with several alternatives.
C26_Witness ==
    \E m \in Mutators, k \in Mutators :
        /\ Done(m)
        /\ callers[m].out.kind = "nullopt"
        /\ Done(k)
        /\ callers[k].out.kind = "ok"
        /\ Len(callers[k].candidates.value) >= 2
        /\ Len(callers[k].candidate.locs) >= 2

(***************************************************************************)
(* UpdateStructInfo (SpecStructInfo).                                      *)
(***************************************************************************)
\* The calls of the log that succeeded.
OkCalls == {k \in 1..Len(sinfo_log) : sinfo_log[k].out.kind = "ok"}

\* C27: a call on an expression without struct info sets it to the given
\* value; a call on an expression with struct info fails; so at most one
\* call succeeds and the expression holds the value that call gave.
C27_WrittenOnce ==
    /\ \A k \in 1..Len(sinfo_log) :
          /\ sinfo_log[k].before = <<>> <=> sinfo_log[k].out.kind = "ok"
          /\ sinfo_log[k].before # <<>> =>
                /\ sinfo_log[k].out.kind = "fatal"
                /\ k < Len(sinfo_log) => sinfo_log[k + 1].before = sinfo_log[k].before
                /\ k = Len(sinfo_log) => expr.struct_info_ = sinfo_log[k].before
    /\ Cardinality(OkCalls) <= 1
    /\ \A k \in OkCalls : expr.struct_info_ = <<sinfo_log[k].given>>

\* A first call succeeded and two later calls with other values failed.
C27_Witness ==
    /\ Len(sinfo_log) = 3
    /\ sinfo_log[1].out.kind = "ok"
    /\ sinfo_log[2].given # sinfo_log[1].given
    /\ sinfo_log[3].given # sinfo_log[1].given
    /\ expr.struct_info_ = <<sinfo_log[1].given>>

(***************************************************************************)
(* Target parsers (SpecTarget).                                            *)
(***************************************************************************)
\* C28: CheckOrSetAttr adds name -> value when name is absent; when name
\* is present the map stays as it is and the call succeeds iff the value is
\* the string `value`; after a successful call attrs[name] is `value`. The
\* nvptx and rocm parsers leave a given mtriple as it is.
C28_CheckOrSetAttr ==
    /\ tgt_last.op = "check" =>
          LET name == tgt_last.name
              value == StrAny(tgt_last.value)
              before == tgt_last.before
          IN  /\ before[name] = Absent =>
                    /\ tgt_last.ok
                    /\ tgt_attrs = [before EXCEPT ![name] = value]
              /\ before[name] # Absent =>
                    /\ tgt_attrs = before
                    /\ tgt_last.ok <=> before[name] = value
              /\ tgt_last.ok => tgt_attrs[name] = value
    /\ tgt_last.op \in {"nvptx", "rocm"} =>
          /\ tgt_last.before["mtriple"] # Absent =>
                tgt_attrs["mtriple"] = tgt_last.before["mtriple"]
          /\ tgt_last.ok =>
                tgt_attrs["mtriple"] = StrAny(IF tgt_last.op = "nvptx" THEN Str_nvptx_triple
                                           ELSE Str_rocm_triple)

\* CheckOrSetAttr was called a second time with the same name and value,
\* after a first call that added the attribute.
C28_Witness ==
    /\ tgt_last.op = "check"
    /\ tgt_last.n = 2
    /\ tgt_last.ok
    /\ tgt_last.before[tgt_last.name] = StrAny(tgt_last.value)
    /\ tgt_attrs = tgt_last.before

\* The attribute that holds the architecture for the parser called last.
ArchKey == tgt_last.name

\* C29: the cuda and nvptx parsers keep a given architecture that starts
\* with "sm_", reject any other given architecture, and fill it in only
\* when it is absent ("sm_50" without a device); the architecture of a
\* parsed target starts with "sm_", and a parsed target is parsed to itself.
C29_ArchitectureKept ==
    tgt_last.op \in {"cuda", "nvptx"} =>
        LET before == tgt_last.before[ArchKey]
            given_sm == before.t = "str" /\ StartsWith(before.s, Str_sm_)
        IN  /\ (before # Absent /\ ~given_sm) => ~tgt_last.ok
            /\ before # Absent => tgt_attrs[ArchKey] = before
            /\ tgt_last.ok =>
                  /\ tgt_attrs[ArchKey].t = "str"
                  /\ StartsWith(tgt_attrs[ArchKey].s, Str_sm_)
            /\ (tgt_last.ok /\ given_sm /\ tgt_last.op = "cuda") => tgt_attrs = tgt_last.before
            /\ (tgt_last.ok /\ given_sm /\ tgt_last.op = "nvptx"
                    /\ tgt_last.before["mtriple"] # Absent) => tgt_attrs = tgt_last.before

\* A target without architecture was parsed twice by the cuda parser: the
\* first parse filled the architecture in, the second changed nothing.
C29_Witness ==
    /\ tgt_last.op = "cuda"
    /\ tgt_last.n = 2
    /\ tgt_last.ok
    /\ tgt_attrs = tgt_last.before
    /\ tgt_attrs["arch"] # StrAny(<<"s", "m", "_", "7", "5">>)

(***************************************************************************)
(* The task scheduler (SpecSched, SpecSchedFair).                          *)
(***************************************************************************)
\* The step asks the search strategy of task t for candidates.
Requests(t) == tasks'[t].reply # tasks[t].reply \/ (tasks'[t].requested /\ ~tasks[t].requested)

\* C21: a task's state changes only from PENDING to RUNNING and from
\* RUNNING to COMPLETED or EXHAUSTED; candidates are requested only from a
\* RUNNING task; a task becomes EXHAUSTED only when its strategy gave no
\* candidates or its budget is consumed, COMPLETED only on early stop.
C21_TaskStateMachine ==
    [][\A t \in Tasks :
          /\ tasks'[t].state # tasks[t].state =>
                <<tasks[t].state, tasks'[t].state>> \in
                    {<<"PENDING", "RUNNING">>, <<"RUNNING", "COMPLETED">>,
                     <<"RUNNING", "EXHAUSTED">>}
          /\ (tasks'[t].state = "EXHAUSTED" /\ tasks[t].state # "EXHAUSTED") =>
                tasks'[t].reply = 0 \/ tasks'[t].budget = 0
          /\ (tasks'[t].state = "COMPLETED" /\ tasks[t].state # "COMPLETED") =>
                tasks'[t].early_stop
          /\ Requests(t) => tasks[t].state = "RUNNING"]_vars

\* One task was retired as COMPLETED and the other as EXHAUSTED with budget
\* left (its strategy had no further candidates).
C21_Witness ==
    \E t \in Tasks, u \in Tasks :
        /\ tasks[t].state = "COMPLETED"
        /\ tasks[u].state = "EXHAUSTED"
        /\ tasks[u].budget > 0

\* C22: the scheduler has terminated only if every task is COMPLETED or
\* EXHAUSTED, and it eventually terminates.
C22_Terminates ==
    /\ [](sched.terminated =>
             \A t \in Tasks : tasks[t].state \notin {"PENDING", "RUNNING"})
    /\ []((\E t \in Tasks : tasks[t].state \in {"PENDING", "RUNNING"}) \/ <>sched.terminated)
    /\ <>sched.terminated

\* The scheduler terminated after a round in which a candidate failed.
C22_Witness ==
    /\ sched.terminated
    /\ \E t \in Tasks : tasks[t].failed > 0

\* C23: the callbacks of round N of a task are invoked once, after the
\* build and the run of round N are complete, and the candidates of round
\* N+1 of the task are requested only after the callbacks of round N.
C23_CallbacksAfterRun ==
    /\ [](\A t \in Tasks :
            /\ tasks[t].callbacks <= 1
            /\ tasks[t].callbacks = 1 <=> (tasks[t].round > 0 /\ tasks[t].called_round = tasks[t].round)
            /\ tasks[t].callbacks = 1 => tasks[t].built /\ tasks[t].ran
            /\ tasks[t].called_round \in {tasks[t].round, tasks[t].round - 1})
    /\ [][\A t \in Tasks :
             /\ tasks'[t].round # tasks[t].round =>
                   /\ tasks'[t].round = tasks[t].round + 1
                   /\ tasks[t].called_round = tasks[t].round
             /\ tasks'[t].called_round # tasks[t].called_round =>
                   /\ tasks'[t].called_round = tasks[t].round
                   /\ tasks[t].built /\ tasks[t].ran]_vars

\* The callbacks of the second round of a task were invoked, and a
\* candidate of that round had failed.
C23_Witness ==
    \E t \in Tasks :
        /\ tasks[t].round = 2
        /\ tasks[t].called_round = 2
        /\ tasks[t].failed > 0
====
